---- MODULE Spec2Model ----
(***************************************************************************)
(* gpw: a command-line wrapper that drives the lifecycle of infrastructure *)
(* stacks on three backends (Cloudformation, local shell commands, GCP     *)
(* deployment manager) and resolves outputs and resources of other stacks  *)
(* through process-wide caches.                                            *)
(*                                                                         *)
(* Specifications:                                                         *)
(*   Spec          one run of the command line: factory and construction   *)
(*                 of the stack object, dispatch of the action, and the    *)
(*                 steps of the chosen lifecycle verb, one step per remote *)
(*                 call, operator prompt or local command.                 *)
(*   SpecLive      Spec, with the run taking its steps as long as it has   *)
(*                 one to take.                                            *)
(*   SpecShell     a run on a ShellStack document of any form, in a        *)
(*                 process whose environment may change after the stack    *)
(*                 object is built.                                        *)
(*   SpecResolver  a sequence of get_stack_output / get_stack_resource     *)
(*                 calls of one process against the module-level caches.   *)
(*   SpecBuild     the factory and the constructor on a document, whose    *)
(*                 type keys, template reference and sections vary, and    *)
(*                 the first call the built stack object makes.            *)
(*                                                                         *)
(* Conventions.  A python dict is a set of <<key, value>> pairs, a python  *)
(* list a sequence; a value that may be either carries its kind.  A text   *)
(* produced by "{}-{}".format(a, b) is the string a \o "-" \o b.  A remote *)
(* error message is the sequence of its words, and python's substring test *)
(* `in` is a search for a contiguous run of words.                         *)
(***************************************************************************)
EXTENDS Integers, Sequences, FiniteSets, TLC

(***************************************************************************)
(* Bounds of the model.                                                    *)
(***************************************************************************)
\* Longest Tags/labels value given as a list by the author of the document.
MaxTagList == 1
\* Most invalid answers the operator types in a row at the change-set prompt.
MaxInvalid == 2
\* Most resolver calls (outputs and resources together) of one process.
MaxLookups == 4

(***************************************************************************)
(* Inputs of a run.                                                        *)
(***************************************************************************)
StackTypes == {"cloudformation", "shell", "gcp"}
\* cli.main: the choices of the positional argument "action".
CliActions == {"create", "delete", "list", "render", "update", "upsert", "validate"}
\* The six lifecycle verbs the command line dispatches to the stack object.
LifecycleVerbs == {"create", "delete", "update", "upsert", "render", "validate"}
BuildIds == {"b1", "b2"}
StackNames == {"web"}
TagKeys == {"team", "build_id"}
TagVals == {"b0"}
TagPairs == TagKeys \X TagVals

\* The words of the remote error messages the model lets the provider answer.
MsgStackMissing == <<"Stack", "web", "does", "not", "exist">>
MsgDenied == <<"insufficient", "permissions">>
MsgNearMiss == <<"does", "not", "does", "exist", "not">>
Messages == {MsgStackMissing, MsgDenied, MsgNearMiss}

\* What the operator may type at the change-set prompt.
Answers == {"e", "d", "k", "y", ""}

(***************************************************************************)
(* Values.                                                                 *)
(***************************************************************************)
\* An exception: its class, the words of its message and, for a SystemExit
\* raised with an integer, that integer (0 otherwise).
NoErr == [kind |-> "none", msg |-> <<>>, code |-> 0]
ClientError(m) == [kind |-> "ClientError", msg |-> m, code |-> 0]
WaiterError == [kind |-> "WaiterError", msg |-> <<>>, code |-> 0]
SystemExit(m) == [kind |-> "SystemExit", msg |-> m, code |-> 0]
SystemExitInt(n) == [kind |-> "SystemExit", msg |-> <<>>, code |-> n]
AttributeError(name) == [kind |-> "AttributeError", msg |-> <<name>>, code |-> 0]
KeyError(name) == [kind |-> "KeyError", msg |-> <<name>>, code |-> 0]
HttpError == [kind |-> "HttpError", msg |-> <<>>, code |-> 0]

\* A Tags/labels value: absent from the document, a dict or a list.
AbsentTags == [kind |-> "absent", map |-> {}, items |-> <<>>]
DictTags(m) == [kind |-> "dict", map |-> m, items |-> <<>>]
ListTags(s) == [kind |-> "list", map |-> {}, items |-> s]

\* The python dicts over TagKeys: sets of pairs with no key twice.
IsDict(m) == \A p \in m : \A q \in m : p[1] = q[1] => p = q
TagDicts == {m \in SUBSET TagPairs : IsDict(m)}
TagLists == UNION {[1..n -> TagPairs] : n \in 0..MaxTagList}
TagInputs == {AbsentTags} \cup {DictTags(m) : m \in TagDicts}
                \cup {ListTags(s) : s \in TagLists}

\* The orders in which iterating a dict may yield its items.
ItemOrders(m) ==
    {s \in [1..Cardinality(m) -> m] : \A i, j \in DOMAIN s : s[i] = s[j] => i = j}

(***************************************************************************)
(* Pure helpers.                                                           *)
(***************************************************************************)
\* python: needle in hay, on sequences of words.
Contains(needle, hay) ==
    \E i \in 0..Len(hay) :
        /\ i + Len(needle) <= Len(hay)
        /\ \A j \in 1..Len(needle) : hay[i + j] = needle[j]

\* Faulty variant: the message compared for equality instead of searched.
DoesNotExistExact(msg) == msg = <<"does", "not", "exist">>

\* CloudformationStack.upsert: "does not exist" in exc.response["Error"]["Message"]
DoesNotExist(msg) == Contains(<<"does", "not", "exist">>, msg)

\* CloudformationStack.__init__ / GCPStack.__init__: Tags (labels) defaults to
\* {}, a dict becomes the list of its items in iteration order `order`, and
\* the build_id entry is appended.
\* Faulty variant: the build_id entry put first instead of last.
NormalizeTagsPrepend(t, order, bid) ==
    ListTags(<<<<"build_id", bid>>>> \o (IF t.kind = "list" THEN t.items ELSE order))

NormalizeTags(t, order, bid) ==
    ListTags(Append(IF t.kind = "list" THEN t.items ELSE order,
                    <<"build_id", bid>>))

\* The orders the construction may see for the Tags value t.
TagOrders(t) == IF t.kind = "dict" THEN ItemOrders(t.map) ELSE {<<>>}

\* manage_change_set: for tag in self.Tags: if tag["Key"] == "build_id":
\* build_id = tag["Value"].  The last matching entry wins; "" stands for the
\* name left unbound when no entry matches.
RECURSIVE FindBuildIdFrom(_, _, _)
FindBuildIdFrom(items, i, found) ==
    IF i > Len(items) THEN found
    ELSE FindBuildIdFrom(items, i + 1,
                         IF items[i][1] = "build_id" THEN items[i][2] ELSE found)

\* Faulty variant: the loop over the tags stops at the first build_id entry.
RECURSIVE FirstBuildIdFrom(_, _)
FirstBuildIdFrom(items, i) ==
    IF i > Len(items) THEN ""
    ELSE IF items[i][1] = "build_id" THEN items[i][2]
    ELSE FirstBuildIdFrom(items, i + 1)

FindBuildIdFirst(tags) == FirstBuildIdFrom(tags.items, 1)

FindBuildId(tags) == FindBuildIdFrom(tags.items, 1, "")

\* manage_change_set: "{}-{}".format(self.StackName, build_id)
ChangeSetName(name, bid) == name \o "-" \o bid

(***************************************************************************)
(* The output and resource resolver and its module-level caches.           *)
(***************************************************************************)
VARIABLES
    remoteCf,       \* the Cloudformation stacks of the account, by name
    remoteGcp,      \* the GCP deployments of the project, by name
    STACK_CACHE,    \* gpw.STACK_CACHE, by stack name
    CF_STACK_RESOURCE_CACHE, \* gpw.CF_STACK_RESOURCE_CACHE, by stack name
    outFetches,     \* remote fetches made by get_stack_output
    resFetches,     \* remote fetches made by get_stack_resource
    namesLooked,    \* the stack names get_stack_output was called with
    pairsLooked,    \* the (stack, resource id) pairs get_stack_resource saw
    lookups,        \* the (name, key, provider) triples get_stack_output saw
    lastCall,       \* the last resolver call
    lastResult,     \* what it returned
    rpc,            \* "ready", or "raised" once a call raised
    nLookups        \* resolver calls made

resVars == <<remoteCf, remoteGcp, STACK_CACHE, CF_STACK_RESOURCE_CACHE,
             outFetches, resFetches, namesLooked, pairsLooked, lookups,
             lastCall, lastResult, rpc, nLookups>>

Names == {"vpc", "db"}
OutputKeys == {"VpcId", "SubnetId"}
ResourceIds == {"VPC", "Subnet"}
Providers == {"cloudformation", "gcp"}

\* A remote stack or deployment: missing, or there with its outputs (a dict
\* from output key to value).
Missing == [exists |-> FALSE, outputs |-> {}]
Remote(outs) == [exists |-> TRUE, outputs |-> outs]
RemoteCfStates == {Missing, Remote({}), Remote({<<"VpcId", "vpc-123">>})}
RemoteGcpStates == {Missing, Remote({}), Remote({<<"VpcId", "net-9">>})}

\* The physical id the remote reports for a resource of a stack.
PhysicalId(name, rid) == name \o "/" \o rid

\* An entry of STACK_CACHE: nothing, a boto3 Stack resource (cloudformation)
\* or the dict {"deployment": ..., "manifest": ...} (gcp).
NoEntry == [kind |-> "none", outputs |-> {}]
CfEntry(outs) == [kind |-> "cloudformation", outputs |-> outs]
GcpEntry(outs) == [kind |-> "gcp", outputs |-> outs]

\* python: d.get(k, default) on a dict held as a set of pairs.
DictGet(d, k, default) ==
    IF \E p \in d : p[1] = k THEN (CHOOSE p \in d : p[1] = k)[2] ELSE default

\* Faulty variant: the cache test never finds an entry.
NeverCached(entry) == FALSE

\* `not STACK_CACHE.get(stack_name)` is false for an entry of either kind:
\* a Stack resource and a two-key dict are both truthy.
OutputCached(entry) == entry.kind # "none"

\* Faulty variant: any cached resource of the stack counts as a hit.
ResourceCachedByStack(cache, rid) == cache # {}

\* `not CF_STACK_RESOURCE_CACHE[stack_name].get(resource_id)`, on the dict
\* of one stack (a StackResource object is truthy).
ResourceCached(cache, rid) == \E p \in cache : p[1] = rid

NoCall == [fn |-> "", name |-> "", key |-> "", provider |-> ""]

ResolverInit ==
    /\ remoteCf \in [Names -> RemoteCfStates]
    /\ remoteGcp \in [Names -> RemoteGcpStates]
    /\ STACK_CACHE = [n \in Names |-> NoEntry]
    /\ CF_STACK_RESOURCE_CACHE = [n \in Names |-> {}]
    /\ outFetches = 0
    /\ resFetches = 0
    /\ namesLooked = {}
    /\ pairsLooked = {}
    /\ lookups = {}
    /\ lastCall = NoCall
    /\ lastResult = ""
    /\ rpc = "ready"
    /\ nLookups = 0

\* The resolver is not called: a run of the command line in this model.
ResolverIdle ==
    /\ remoteCf = [n \in Names |-> Missing]
    /\ remoteGcp = [n \in Names |-> Missing]
    /\ STACK_CACHE = [n \in Names |-> NoEntry]
    /\ CF_STACK_RESOURCE_CACHE = [n \in Names |-> {}]
    /\ outFetches = 0
    /\ resFetches = 0
    /\ namesLooked = {}
    /\ pairsLooked = {}
    /\ lookups = {}
    /\ lastCall = NoCall
    /\ lastResult = ""
    /\ rpc = "ready"
    /\ nLookups = 0

\* get_stack_output(stack_name, output_key, provider): on a miss the remote
\* representation is fetched (for gcp the deployment and its manifest) and
\* stored under stack_name in STACK_CACHE, the one cache both providers use;
\* then the outputs are searched for the key, "" when none matches (boto3
\* loads the Stack resource on the first read of `outputs`, within the same
\* call: the fetch is counted with the miss).  A fetch
\* of a stack that is not there raises, and so does reading an entry the
\* other provider stored: a dict has no attribute `outputs`, and a Stack
\* resource cannot be subscripted.  An exception is caught by no caller that
\* goes on: it ends the process.
GetStackOutput(name, key, provider) ==
    /\ rpc = "ready"
    /\ nLookups < MaxLookups
    /\ nLookups' = nLookups + 1
    /\ lastCall' = [fn |-> "get_stack_output", name |-> name, key |-> key,
                    provider |-> provider]
    /\ namesLooked' = namesLooked \cup {name}
    /\ lookups' = lookups \cup {<<name, key, provider>>}
    /\ LET hit == OutputCached(STACK_CACHE[name])
           remote == IF provider = "cloudformation" THEN remoteCf[name]
                     ELSE remoteGcp[name]
           fetched == IF provider = "cloudformation" THEN CfEntry(remote.outputs)
                      ELSE GcpEntry(remote.outputs)
           entry == IF hit THEN STACK_CACHE[name] ELSE fetched
       IN  /\ outFetches' = IF hit THEN outFetches ELSE outFetches + 1
           /\ IF ~hit /\ ~remote.exists
              THEN /\ rpc' = "raised"
                   /\ lastResult' = ""
                   /\ STACK_CACHE' = STACK_CACHE
              ELSE /\ STACK_CACHE' = [STACK_CACHE EXCEPT ![name] = entry]
                   /\ IF entry.kind # provider
                      THEN rpc' = "raised" /\ lastResult' = ""
                      ELSE /\ rpc' = rpc
                           /\ lastResult' = DictGet(entry.outputs, key, "")
    /\ UNCHANGED <<remoteCf, remoteGcp, CF_STACK_RESOURCE_CACHE, resFetches,
                   pairsLooked>>

\* get_stack_resource(stack_name, resource_id): the StackResource of a pair
\* is fetched on the first lookup of that pair and kept in the dict of its
\* stack; its physical_resource_id is returned.  A fetch for a stack that is
\* not there raises.
GetStackResource(name, rid) ==
    /\ rpc = "ready"
    /\ nLookups < MaxLookups
    /\ nLookups' = nLookups + 1
    /\ lastCall' = [fn |-> "get_stack_resource", name |-> name, key |-> rid,
                    provider |-> "cloudformation"]
    /\ pairsLooked' = pairsLooked \cup {<<name, rid>>}
    /\ LET hit == ResourceCached(CF_STACK_RESOURCE_CACHE[name], rid)
           cache == IF hit THEN CF_STACK_RESOURCE_CACHE[name]
                    ELSE CF_STACK_RESOURCE_CACHE[name]
                            \cup {<<rid, PhysicalId(name, rid)>>}
       IN  /\ resFetches' = IF hit THEN resFetches ELSE resFetches + 1
           /\ IF ~hit /\ ~remoteCf[name].exists
              THEN /\ rpc' = "raised"
                   /\ lastResult' = ""
                   /\ CF_STACK_RESOURCE_CACHE' = CF_STACK_RESOURCE_CACHE
              ELSE /\ rpc' = rpc
                   /\ CF_STACK_RESOURCE_CACHE' =
                          [CF_STACK_RESOURCE_CACHE EXCEPT ![name] = cache]
                   /\ lastResult' = DictGet(cache, rid, "")
    /\ UNCHANGED <<remoteCf, remoteGcp, STACK_CACHE, outFetches, namesLooked,
                   lookups>>

(***************************************************************************)
(* One run of the command line.                                            *)
(***************************************************************************)
VARIABLES
    stackType,      \* the document's type discriminator, lower-cased
    action,         \* args.action
    wait,           \* args.wait
    review,         \* args.review
    buildId,        \* args.build_id (never empty: main exits otherwise)
    stackName,      \* the document's StackName (name, for gcp)
    docTags,        \* the document's Tags (labels, for gcp)
    docActions,     \* the keys of the document's Actions mapping (shell)
    docCommands,    \* the form of Commands in the document's actions (shell)
    docEnvironment, \* the document's stack-wide Environment (shell)
    docActionEnv,   \* the Environment of the document's actions (shell)
    startEnviron,   \* os.environ when the process starts
    environ,        \* os.environ
    Actions,        \* the instance's Actions: the Commands of each action
    popenArgs,      \* the arguments of the Popen call made, NoPopen before
    lastGet,        \* GCPStack.get: the last remote answer and what get made of it
    insertLog,      \* the deployments().insert calls: who made them, with what
    method,         \* the method of the stack object main called, "" before
    pc,             \* where the run stands
    Tags,           \* the instance's Tags (labels) attribute
    err,            \* the exception that ended the run, NoErr otherwise
    calls,          \* the remote calls and local commands issued so far
    updReview,      \* the review argument of the running update call
    csName,         \* manage_change_set's local change_set_name
    answer,         \* the operator's last answer at the prompt
    invalid,        \* invalid answers typed so far
    disp,           \* the dispositions applied to the change set, in order
    updErr,         \* the exception upsert's update attempt raised
    createCalls,    \* how many times create() was entered
    updateReturned, \* update() returned normally
    probes,         \* GCPStack.wait: probes made so far
    exitCode        \* the return code of the local command, 0 before it ran

runVars == <<stackType, action, wait, review, buildId, stackName, docTags,
             docActions, docCommands, docEnvironment, docActionEnv,
             startEnviron, environ, Actions, popenArgs, lastGet, insertLog,
             method, pc, Tags, err,
             calls, updReview, csName, answer, invalid, disp, updErr,
             createCalls, updateReturned, probes, exitCode>>

inputs == <<stackType, action, wait, review, buildId, stackName, docTags,
            docActions, docCommands, docEnvironment, docActionEnv,
            startEnviron>>

\* The state only a ShellStack run reads or writes.
shVars == <<environ, Actions, popenArgs>>
\* The state only a GCPStack run reads or writes.
gcpVars == <<lastGet, insertLog>>

(***************************************************************************)
(* The construction of the stack object from a document, attribute by      *)
(* attribute.                                                              *)
(***************************************************************************)
VARIABLES
    document,       \* the mapping main hands to the factory (stack_attributes)
    templateRef,    \* what the document's TemplateBody is: a dict or a path
    attrs,          \* kwargs after the factory, then the instance's __dict__
    cls,            \* the class the factory chose, "" before
    bpc,            \* where the construction stands
    berr,           \* the exception that ended the construction, or NoErr
    rendered,       \* the nested template as the engine rendered it
    template,       \* the nested template as parse_mako/parse_jinja return it
    target,         \* GCPStack.target: the keys of its config document
    body,           \* GCPStack.body
    sent            \* the keyword arguments handed to a remote call

buildVars == <<document, templateRef, attrs, cls, bpc, berr, rendered,
               template, target, body, sent>>

NoTags == [kind |-> "none", map |-> {}, items |-> <<>>]
ShellActions == {"Create", "Delete", "Update"}

\* GCPStack.wait(self, interval=5, timeout=300)
WaitInterval == 5
WaitTimeout == 300
\* n_probes = int(timeout/interval)
NProbes == WaitTimeout \div WaitInterval

\* One entry of the log: the operation, the change-set name it was given
\* ("" when it takes none), the Tags/labels it was handed (NoTags when it
\* takes none) and its ChangeSetType, which create_change_set is always
\* given as "UPDATE" ("" for the other operations).
\* Faulty variant: the change set is asked for as one that creates a stack.
CallTypeCreate(op, cs, tags) ==
    [op |-> op, cs |-> cs, tags |-> tags,
     type |-> IF op = "create_change_set" THEN "CREATE" ELSE ""]

Call(op, cs, tags) ==
    [op |-> op, cs |-> cs, tags |-> tags,
     type |-> IF op = "create_change_set" THEN "UPDATE" ELSE ""]

\* The calls that change remote state, and the local command execution.
MutatingOps == {"create_stack", "update_stack", "delete_stack",
                "create_change_set", "execute_change_set", "delete_change_set",
                "deployments.insert", "deployments.delete", "Popen"}

\* The methods each class defines (Stack, the base class, defines only
\* __init__ and factory).
Methods(t) ==
    CASE t = "cloudformation" ->
            {"create", "delete", "update", "manage_change_set",
             "changeset_user_input", "upsert", "render", "validate"}
      [] t = "shell" -> {"_execute", "create", "delete", "update", "render"}
      [] t = "gcp" ->
            {"assemble_target", "assemble_body", "get", "wait", "create",
             "delete", "update", "upsert", "render", "validate"}

\* cli.main: the method each action calls on the stack object ("" for list,
\* which does nothing).
\* Faulty variant: the render action falls into create.
DispatchMethodRenderCreates(a) ==
    IF a = "list" THEN "" ELSE IF a = "render" THEN "create" ELSE a

DispatchMethod(a) == IF a = "list" THEN "" ELSE a

\* Where each method of each class starts.
\* Faulty variant: create() of the Cloudformation stack goes straight to
\* create_stack, without validate().
EntryCreateUnvalidated(t, m) ==
    CASE m = "render" -> "render"
      [] t = "cloudformation" /\ m = "create" -> "cf_create_stack"
      [] t = "cloudformation" /\ m = "delete" -> "cf_delete"
      [] t = "cloudformation" /\ m = "update" -> "cf_update_validate"
      [] t = "cloudformation" /\ m = "upsert" -> "cf_upsert_validate"
      [] t = "cloudformation" /\ m = "validate" -> "cf_validate"
      [] t = "shell" -> "sh_execute"
      [] t = "gcp" /\ m = "create" -> "gcp_create"
      [] t = "gcp" /\ m = "update" -> "gcp_update"
      [] t = "gcp" /\ m = "delete" -> "gcp_delete_get"
      [] t = "gcp" /\ m = "upsert" -> "gcp_upsert_get"
      [] t = "gcp" /\ m = "validate" -> "gcp_validate"

Entry(t, m) ==
    CASE m = "render" -> "render"
      [] t = "cloudformation" /\ m = "create" -> "cf_create_validate"
      [] t = "cloudformation" /\ m = "delete" -> "cf_delete"
      [] t = "cloudformation" /\ m = "update" -> "cf_update_validate"
      [] t = "cloudformation" /\ m = "upsert" -> "cf_upsert_validate"
      [] t = "cloudformation" /\ m = "validate" -> "cf_validate"
      [] t = "shell" -> "sh_execute"
      [] t = "gcp" /\ m = "create" -> "gcp_create"
      [] t = "gcp" /\ m = "update" -> "gcp_update"
      [] t = "gcp" /\ m = "delete" -> "gcp_delete_get"
      [] t = "gcp" /\ m = "upsert" -> "gcp_upsert_get"
      [] t = "gcp" /\ m = "validate" -> "gcp_validate"

(***************************************************************************)
(* The values of a ShellStack document and of the process environment.     *)
(***************************************************************************)
\* The environment variables the model follows, and the values each layer
\* gives them: every layer has its own value of FOO, and a BUILD_ID that is
\* no build id of a run.
EnvKeys == {"FOO", "BUILD_ID"}
ProcessEnvs == SUBSET {<<"FOO", "p">>, <<"BUILD_ID", "b0">>}
StackEnvs == SUBSET {<<"FOO", "s">>, <<"BUILD_ID", "b0">>}
ActionEnvs == SUBSET {<<"FOO", "a">>, <<"BUILD_ID", "b0">>}
\* The value FOO is given when the environment changes after construction.
LaterValue == "q"

\* The Commands the document gives an action: a string or a list of the
\* words <<"run", the action's name, "$FOO">>, the empty string, no Commands
\* key at all, or a value that is neither string nor list (a number).
CommandForms == {"str", "list", "empty", "absent", "other"}
DocCommand(form, k) ==
    CASE form = "str" -> [type |-> "str", text |-> <<"run", k, "$FOO">>]
      [] form = "list" -> [type |-> "list", text |-> <<"run", k, "$FOO">>]
      [] form = "empty" -> [type |-> "str", text |-> <<>>]
      [] form = "absent" -> [type |-> "absent", text |-> <<>>]
      [] form = "other" -> [type |-> "other", text |-> <<>>]

NoPopen == [commands |-> <<>>, env |-> {}, shell |-> FALSE]

HasKey(d, k) == \E p \in d : p[1] = k

\* os.path.expandvars: a $NAME whose NAME is set is replaced by its value,
\* any other word is left as it is.
\* Faulty variant: nothing is expanded.
ExpandNothing(text, env) == text

\* Faulty variant: $FOO is left for the shell, which expands it when the
\* command runs.
ExpandAtExecution(text, env) ==
    [i \in DOMAIN text |-> IF text[i] = "$FOO" THEN "$FOO" ELSE text[i]]

expandvars(text, env) ==
    [i \in DOMAIN text |->
        IF \E k \in EnvKeys : text[i] = "$" \o k /\ HasKey(env, k)
        THEN DictGet(env, CHOOSE k \in EnvKeys : text[i] = "$" \o k, "")
        ELSE text[i]]

\* dict(a, **b) and a.update(b): the items of b, and those of a whose key b
\* does not have.
Override(a, b) == {p \in a : ~HasKey(b, p[1])} \cup b

\* _execute: the environment of the command.
\* Faulty variant: BUILD_ID is set first, so that any layer overrides it.
MergeEnvBuildIdFirst(process, stack, act, bid) ==
    Override(Override(Override({<<"BUILD_ID", bid>>}, process), stack), act)

MergeEnv(process, stack, act, bid) ==
    Override(Override(Override(process, stack), act), {<<"BUILD_ID", bid>>})

(***************************************************************************)
(* The answers of the GCP deployment manager.                              *)
(***************************************************************************)
\* What deployments().get(...).execute() answers: an HttpError with its
\* status and content, or (status 200) the deployment, whose operation is
\* running or done.
GetOutcomes ==
    {[http |-> "404", content |-> "notfound", status |-> ""],
     [http |-> "403", content |-> "forbidden", status |-> ""],
     [http |-> "500", content |-> "backend", status |-> ""],
     [http |-> "200", content |-> "", status |-> "RUNNING"],
     [http |-> "200", content |-> "", status |-> "DONE"]}

\* The values get() returns: the deployment with its operation.status, or {}.
Deployment(st) == [exists |-> TRUE, status |-> st]
EmptyDict == [exists |-> FALSE, status |-> ""]

NoReply == [http |-> "", content |-> "", status |-> ""]
NoGet == [reply |-> NoReply, value |-> EmptyDict]

\* The project of the document, and the body assemble_body made of it.
Project == "proj"
Body(name, labels) == [name |-> name, labels |-> labels]

(***************************************************************************)
(* The values of a document handed to the factory.                         *)
(***************************************************************************)
\* Stack.factory: possible_stack_type_keys, in the order they are tried.
possible_stack_type_keys == <<"StackType", "stack_type", "Type", "type">>

\* The values the model lets a document give a type key.
TypeValues == {"cloudformation", "Shell", "gcp", "Foo"}

\* str.lower() on those values.
\* Faulty variant: the value is compared as it is written.
LowerNothing(v) == v

Lower(v) ==
    CASE v = "Shell" -> "shell"
      [] v = "Foo" -> "foo"
      [] OTHER -> v

\* The type entries of a document: any of the four keys, each with a value.
TypeEntries ==
    {d \in SUBSET ({possible_stack_type_keys[i] : i \in 1..4} \X TypeValues) :
        IsDict(d)}

\* What a document's TemplateBody may be: a dict written in the document, or
\* the path of a file, here as the sequence of its characters.
InlineDict == <<"<dict>">>
DotMako == <<".", "m", "a", "k", "o">>
DotJinja == <<".", "j", "i", "n", "j", "a">>
DotJson == <<".", "j", "s", "o", "n">>
DotYaml == <<".", "y", "a", "m", "l">>
TemplateRefs ==
    {InlineDict, <<"t">> \o DotMako, <<"t">> \o DotJinja, <<"t">> \o DotJson,
     <<"t">> \o DotYaml, DotYaml, <<"t", ".", "t", "x", "t">>}

\* s[-n:]
LastChars(s, n) == SubSeq(s, IF Len(s) > n THEN Len(s) - n + 1 ELSE 1, Len(s))

\* urlparse of a plain path: (scheme, netloc, path, params, query, fragment)
UrlParse(ref) == <<<<>>, <<>>, ref, <<>>, <<>>, <<>>>>

\* CloudformationStack.__init__: the branch taken for a TemplateBody.  The
\* first three tests search the end of template_url.path; the fourth,
\* `".yaml" in template_url[-5:]`, searches the last five components of the
\* parsed url for one that is ".yaml".
TemplateKind(ref) ==
    IF ref = InlineDict THEN "dict"
    ELSE LET url == UrlParse(ref)
             path == url[3]
         IN  IF Contains(DotMako, LastChars(path, 5)) THEN "mako"
             ELSE IF Contains(DotJinja, LastChars(path, 6)) THEN "jinja"
             ELSE IF Contains(DotJson, LastChars(path, 5)) THEN "json"
             ELSE IF \E i \in 2..6 : url[i] = DotYaml THEN "yaml"
             ELSE "other"

\* A nested template: its Resources (their names) and its Outputs.
NoTemplate == [Resources |-> {}, Outputs |-> {}]
NoSend == [op |-> "", kwargs |-> {}, body |-> {}]

\* What rendering and loading a nested template may give.
ResourceNames == {"Vpc", "Db"}
AuthorOutputs == {d \in SUBSET {<<"Vpc", "author">>, <<"Url", "author">>} : IsDict(d)}
RenderedTemplates ==
    {[Resources |-> r, Outputs |-> o] : r \in SUBSET ResourceNames, o \in AuthorOutputs}

\* parse_mako, parse_jinja: the output made for a resource,
\* {"Value": {"Ref": k}, "Export": {"Name": "{}-{}".format(stack_name, k)}}
DefaultOutput(name, k) == "Ref:" \o k \o ",Export:" \o name \o "-" \o k

\* parse_mako, parse_jinja: the outputs of the resources, updated with the
\* template's own Outputs.
\* Faulty variant: the template's Outputs updated with those of the resources.
ParseOutputsDefaultsWin(name, t) ==
    [t EXCEPT !.Outputs =
        Override(t.Outputs, {<<k, DefaultOutput(name, k)>> : k \in t.Resources})]

ParseOutputs(name, t) ==
    [t EXCEPT !.Outputs =
        Override({<<k, DefaultOutput(name, k)>> : k \in t.Resources}, t.Outputs)]

\* GCPStack.GCP_DEPLOYMENT_BODY_KEYS, and the keys assemble_target copies
\* into the config document.
\* Faulty variant: project is a body key too.
BodyKeysWithProject ==
    {"description", "fingerprint", "labels", "name", "target", "project"}

GCP_DEPLOYMENT_BODY_KEYS == {"description", "fingerprint", "labels", "name", "target"}
ConfigKeys == {"imports", "resources", "outputs"}

\* The value of Tags (labels) once the build_id entry is appended.
WithBuildId(v, bid) == v \o "+build_id=" \o bid

\* d[k] = v
DictSet(d, k, v) == Override(d, {<<k, v>>})
\* del d[k]
DictDel(d, k) == {p \in d : p[1] # k}

\* The documents of the model.  Every one has the BuildId main puts in.
\* With any type entries, the rest is what each class needs at least.
TypedDocuments(bid) ==
    {types \cup {<<"BuildId", bid>>, <<"StackName", "web">>,
                 <<"TemplateBody", "ref">>, <<"name", "web">>,
                 <<"project", "proj">>, <<"Actions", "actions">>} :
        types \in TypeEntries}

\* Cloudformation documents: with or without a type entry (and with one left
\* over next to the one popped), Parameters and Tags.
CfDocuments(bid) ==
    {types \cup opt \cup {<<"BuildId", bid>>, <<"StackName", "web">>,
                          <<"TemplateBody", "ref">>} :
        types \in {{}, {<<"Type", "cloudformation">>},
                   {<<"StackType", "cloudformation">>, <<"type", "gcp">>}},
        opt \in SUBSET {<<"Parameters", "params">>, <<"Tags", "tags">>}}

\* GCP documents: any of the optional sections, and one the API has not.
GcpDocuments(bid) ==
    {opt \cup {<<"type", "gcp">>, <<"BuildId", bid>>, <<"name", "web">>,
               <<"project", "proj">>} :
        opt \in SUBSET {<<"description", "d">>, <<"fingerprint", "f">>,
                        <<"labels", "labels">>, <<"resources", "r">>,
                        <<"outputs", "o">>, <<"imports", "i">>,
                        <<"zone", "z">>}}

\* A construction about to start on one of these documents.
BuildInit ==
    /\ \E bid \in BuildIds :
          \/ document \in TypedDocuments(bid) /\ templateRef = InlineDict
          \/ document \in CfDocuments(bid) /\ templateRef \in TemplateRefs
          \/ document \in GcpDocuments(bid) /\ templateRef = InlineDict
    /\ attrs = {}
    /\ cls = ""
    /\ bpc = "factory"
    /\ berr = NoErr
    /\ rendered = NoTemplate
    /\ template = NoTemplate
    /\ target = {}
    /\ body = {}
    /\ sent = NoSend

\* No construction is followed.
BuildIdle ==
    /\ document = {}
    /\ templateRef = <<>>
    /\ attrs = {}
    /\ cls = ""
    /\ bpc = "idle"
    /\ berr = NoErr
    /\ rendered = NoTemplate
    /\ template = NoTemplate
    /\ target = {}
    /\ body = {}
    /\ sent = NoSend

\* Stack.factory: the first of possible_stack_type_keys the document has.
\* Faulty variant: the last one the document has.
LastTypeKey(d) ==
    LET present == {i \in 1..4 : HasKey(d, possible_stack_type_keys[i])}
    IN  IF present = {} THEN ""
        ELSE possible_stack_type_keys[CHOOSE i \in present :
                                        \A j \in present : j <= i]

FirstTypeKey(d) ==
    LET present == {i \in 1..4 : HasKey(d, possible_stack_type_keys[i])}
    IN  IF present = {} THEN ""
        ELSE possible_stack_type_keys[CHOOSE i \in present :
                                        \A j \in present : i <= j]

\* Stack.factory: stack_type, "cloudformation" when the document has no type
\* key, else the lower-cased value of the first it has.
FactoryType(d) ==
    IF FirstTypeKey(d) = "" THEN "cloudformation"
    ELSE Lower(DictGet(d, FirstTypeKey(d), ""))

\* Stack.factory: the class of a stack_type, "" for none.
FactoryClass(t) ==
    CASE t = "cloudformation" -> "CloudformationStack"
      [] t = "shell" -> "ShellStack"
      [] t = "gcp" -> "GCPStack"
      [] OTHER -> ""

\* The state of a run before its first step.
RunStart ==
    /\ environ = startEnviron
    /\ Actions = [k \in docActions |-> DocCommand(docCommands, k)]
    /\ popenArgs = NoPopen
    /\ lastGet = NoGet
    /\ insertLog = <<>>
    /\ method = ""
    /\ pc = "construct"
    /\ Tags = NoTags
    /\ err = NoErr
    /\ calls = <<>>
    /\ updReview = FALSE
    /\ csName = ""
    /\ answer = ""
    /\ invalid = 0
    /\ disp = <<>>
    /\ updErr = NoErr
    /\ createCalls = 0
    /\ updateReturned = FALSE
    /\ probes = 0
    /\ exitCode = 0

\* A run of the command line on any document; the ShellStack documents are
\* the plain ones (string Commands, no Environment, an empty os.environ).
RunInit ==
    /\ stackType \in StackTypes
    /\ action \in CliActions
    /\ wait \in BOOLEAN
    /\ review \in BOOLEAN
    /\ buildId \in BuildIds
    /\ stackName \in StackNames
    /\ docTags \in (IF stackType = "shell" THEN {AbsentTags} ELSE TagInputs)
    /\ docActions \in (IF stackType = "shell" THEN SUBSET ShellActions ELSE {{}})
    /\ docCommands = "str"
    /\ docEnvironment = {}
    /\ docActionEnv = {}
    /\ startEnviron = {}
    /\ RunStart

\* A run on a ShellStack document of any form; the environments vary where
\* they are read, in the runs of create, delete and update.
ShellInit ==
    /\ stackType = "shell"
    /\ action \in CliActions
    /\ wait \in BOOLEAN
    /\ review \in BOOLEAN
    /\ buildId \in BuildIds
    /\ stackName \in StackNames
    /\ docTags = AbsentTags
    /\ docActions \in SUBSET ShellActions
    /\ docCommands \in CommandForms
    /\ startEnviron \in ProcessEnvs
    /\ docEnvironment \in
          (IF action \in {"create", "delete", "update"} THEN StackEnvs ELSE {{}})
    /\ docActionEnv \in
          (IF action \in {"create", "delete", "update"} THEN ActionEnvs ELSE {{}})
    /\ RunStart

\* Stack.factory and the constructor of the chosen class: Cloudformation and
\* GCP normalise Tags/labels; ShellStack has none.
\* ShellStack.__init__ reads v["Commands"] of every action (a KeyError when
\* an action has none) and expands the variables of those that are strings.
Construct ==
    /\ pc = "construct"
    /\ IF stackType = "shell"
       THEN /\ Tags' = Tags
            /\ IF \E k \in DOMAIN Actions : Actions[k].type = "absent"
               THEN /\ pc' = "failed"
                    /\ err' = KeyError("Commands")
                    /\ Actions' = Actions
               ELSE /\ pc' = "dispatch"
                    /\ err' = err
                    /\ Actions' =
                          [k \in DOMAIN Actions |->
                              IF Actions[k].type = "str"
                              THEN [Actions[k] EXCEPT
                                      !.text = expandvars(@, environ)]
                              ELSE Actions[k]]
       ELSE /\ pc' = "dispatch"
            /\ err' = err
            /\ Actions' = Actions
            /\ \E order \in TagOrders(docTags) :
                    Tags' = NormalizeTags(docTags, order, buildId)
    /\ UNCHANGED <<resVars, buildVars, inputs, gcpVars, environ, popenArgs, method, calls,
                   updReview, csName, answer, invalid, disp, updErr,
                   createCalls, updateReturned, probes, exitCode>>

\* cli.main: the chain of `if args.action == ...` calls one method of the
\* stack object; a method the class does not define is an AttributeError.
Dispatch ==
    /\ pc = "dispatch"
    /\ method' = DispatchMethod(action)
    /\ LET m == DispatchMethod(action) IN
        IF m = ""
        THEN pc' = "done" /\ UNCHANGED <<err, createCalls, updReview>>
        ELSE IF m \notin Methods(stackType)
        THEN /\ pc' = "failed"
             /\ err' = AttributeError(m)
             /\ UNCHANGED <<createCalls, updReview>>
        ELSE /\ pc' = Entry(stackType, m)
             /\ createCalls' = IF m = "create" THEN createCalls + 1 ELSE createCalls
             /\ updReview' = IF m = "update" THEN review ELSE updReview
             /\ err' = err
    /\ UNCHANGED <<resVars, buildVars, inputs, shVars, gcpVars, Tags, calls, csName, answer, invalid, disp, updErr,
                   updateReturned, probes, exitCode>>

(***************************************************************************)
(* CloudformationStack.                                                    *)
(***************************************************************************)
\* upsert's handler: except ClientError as exc, with "does not exist" in the
\* message, falls back to create.
UpsertFallsBack(e) == e.kind = "ClientError" /\ DoesNotExist(e.msg)

\* An exception e leaves update(): under upsert the handler either enters
\* create() or lets e go on; anywhere else e ends the run.
RaiseInUpdate(e) ==
    /\ updErr' = IF method = "upsert" THEN e ELSE updErr
    /\ IF method = "upsert" /\ UpsertFallsBack(e)
       THEN /\ pc' = "cf_create_validate"
            /\ createCalls' = createCalls + 1
            /\ err' = err
       ELSE /\ pc' = "failed"
            /\ createCalls' = createCalls
            /\ err' = e

\* update() returns normally, and with it the verb that called it.
UpdateReturns ==
    /\ pc' = "done"
    /\ updateReturned' = TRUE

\* After the change set (or the direct update): if wait, the
\* stack_update_complete waiter.
AfterUpdateCall ==
    IF wait
    THEN pc' = "cf_update_wait" /\ updateReturned' = updateReturned
    ELSE UpdateReturns

\* update(): `if review: self.manage_change_set()`, else the direct update.
\* Faulty variant: the direct update whatever review says.
UpdateBranchAlwaysDirect(rev) == "cf_update_stack"

UpdateBranch(rev) == IF rev THEN "cs_create" ELSE "cf_update_stack"

\* validate(): `except ClientError as exc: raise
\* SystemExit(exc.response["Error"]["Message"])`.
ValidateExit(e) == SystemExit(e.msg)

\* validate(): validate_template(TemplateBody); a ClientError becomes
\* SystemExit(message).  Called by upsert, update and create, and by the
\* validate action.
CfValidate ==
    /\ pc \in {"cf_upsert_validate", "cf_update_validate", "cf_create_validate",
               "cf_validate"}
    /\ calls' = Append(calls, Call("validate_template", "", NoTags))
    /\ \/ /\ pc' = CASE pc = "cf_upsert_validate" -> "cf_update_validate"
                     [] pc = "cf_update_validate" -> UpdateBranch(updReview)
                     [] pc = "cf_create_validate" -> "cf_create_stack"
                     [] pc = "cf_validate" -> "done"
          \* upsert calls self.update(wait=wait): review keeps its default, True
          /\ updReview' = IF pc = "cf_upsert_validate" THEN TRUE ELSE updReview
          /\ err' = err
          /\ UNCHANGED <<updErr, createCalls>>
       \/ /\ updReview' = updReview
          /\ \E m \in Messages :
                IF pc = "cf_update_validate"
                THEN RaiseInUpdate(ValidateExit(ClientError(m)))
                ELSE /\ pc' = "failed"
                     /\ err' = ValidateExit(ClientError(m))
                     /\ UNCHANGED <<updErr, createCalls>>
    /\ UNCHANGED <<resVars, buildVars, inputs, shVars, gcpVars, method, Tags, csName, answer, invalid, disp, updateReturned,
                   probes, exitCode>>

\* manage_change_set: the build id is read from the tags, the name derived,
\* and create_change_set called with the name, type UPDATE and every
\* attribute of the instance.
CsCreate ==
    /\ pc = "cs_create"
    /\ LET name == ChangeSetName(stackName, FindBuildId(Tags)) IN
        /\ csName' = name
        /\ calls' = Append(calls, Call("create_change_set", name, Tags))
    /\ \/ /\ pc' = "cs_wait"
          /\ UNCHANGED <<err, updErr, createCalls>>
       \/ \E m \in Messages : RaiseInUpdate(ClientError(m))
    /\ UNCHANGED <<resVars, buildVars, inputs, shVars, gcpVars, method, Tags, updReview, answer, invalid, disp,
                   updateReturned, probes, exitCode>>

\* manage_change_set: sleep, then the change_set_create_complete waiter.
CsWait ==
    /\ pc = "cs_wait"
    /\ calls' = Append(calls, Call("wait_change_set_create_complete", csName, NoTags))
    /\ \/ /\ pc' = "cs_describe"
          /\ UNCHANGED <<err, updErr, createCalls>>
       \/ RaiseInUpdate(WaiterError)
    /\ UNCHANGED <<resVars, buildVars, inputs, shVars, gcpVars, method, Tags, updReview, csName, answer, invalid, disp,
                   updateReturned, probes, exitCode>>

\* manage_change_set: describe_change_set, printed for the operator.
CsDescribe ==
    /\ pc = "cs_describe"
    /\ calls' = Append(calls, Call("describe_change_set", csName, NoTags))
    /\ \/ /\ pc' = "cs_prompt"
          /\ UNCHANGED <<err, updErr, createCalls>>
       \/ \E m \in Messages : RaiseInUpdate(ClientError(m))
    /\ UNCHANGED <<resVars, buildVars, inputs, shVars, gcpVars, method, Tags, updReview, csName, answer, invalid, disp,
                   updateReturned, probes, exitCode>>

\* Faulty variant: "k" deletes the change set as "d" does.
AnswerOpKeepDeletes(a) ==
    CASE a = "e" -> "execute_change_set"
      [] a \in {"d", "k"} -> "delete_change_set"
      [] OTHER -> ""

\* changeset_user_input: the remote call an answer makes ("" for none) ...
AnswerOp(a) ==
    CASE a = "e" -> "execute_change_set"
      [] a = "d" -> "delete_change_set"
      [] OTHER -> ""

\* ... and its return value: True ends manage_change_set's loop.
\* Faulty variant: an invalid answer ends the loop too.
AnswerEndsLoopAlways(a) == TRUE

\* Faulty variant: after "e" the operator is asked again.
AnswerEndsLoopNotExecute(a) == a \in {"d", "k"}

AnswerEndsLoop(a) == a \in {"e", "d", "k"}

\* The disposition an answer applies to the change set.
Disposition(a) ==
    CASE a = "e" -> "executed"
      [] a = "d" -> "deleted"
      [] a = "k" -> "kept"

\* One turn of `while not answer: answer = self.changeset_user_input(...)`.
\* manage_change_set is called without wait, so its own wait never runs and
\* it returns to update() when the loop ends.
ChangesetUserInput ==
    /\ pc = "cs_prompt"
    /\ \E a \in Answers :
        /\ answer' = a
        /\ calls' = IF AnswerOp(a) = "" THEN calls
                    ELSE Append(calls, Call(AnswerOp(a), csName, NoTags))
        /\ IF AnswerEndsLoop(a)
           THEN \/ /\ disp' = IF a \in {"e", "d", "k"}
                              THEN Append(disp, Disposition(a)) ELSE disp
                   /\ AfterUpdateCall
                   /\ UNCHANGED <<err, updErr, createCalls, invalid>>
                \/ /\ a \in {"e", "d"}
                   /\ \E m \in Messages : RaiseInUpdate(ClientError(m))
                   /\ UNCHANGED <<disp, updateReturned, invalid>>
           ELSE /\ invalid < MaxInvalid
                /\ invalid' = invalid + 1
                /\ pc' = pc
                /\ UNCHANGED <<err, updErr, createCalls, disp, updateReturned>>
    /\ UNCHANGED <<resVars, buildVars, inputs, shVars, gcpVars, method, Tags, updReview, csName, probes, exitCode>>

\* update(review=False): Stack(StackName).update(**self.__dict__)
CfUpdateStack ==
    /\ pc = "cf_update_stack"
    /\ calls' = Append(calls, Call("update_stack", "", Tags))
    /\ \/ /\ AfterUpdateCall
          /\ UNCHANGED <<err, updErr, createCalls>>
       \/ /\ \E m \in Messages : RaiseInUpdate(ClientError(m))
          /\ updateReturned' = updateReturned
    /\ UNCHANGED <<resVars, buildVars, inputs, shVars, gcpVars, method, Tags, updReview, csName, answer, invalid, disp, probes, exitCode>>

\* update(wait=True): the stack_update_complete waiter.
CfUpdateWait ==
    /\ pc = "cf_update_wait"
    /\ calls' = Append(calls, Call("wait_stack_update_complete", "", NoTags))
    /\ \/ /\ UpdateReturns
          /\ UNCHANGED <<err, updErr, createCalls>>
       \/ /\ RaiseInUpdate(WaiterError)
          /\ updateReturned' = updateReturned
    /\ UNCHANGED <<resVars, buildVars, inputs, shVars, gcpVars, method, Tags, updReview, csName, answer, invalid, disp, probes, exitCode>>

\* create(): create_stack(**self.__dict__); an error ends the run, also
\* inside upsert's handler.
CfCreateStack ==
    /\ pc = "cf_create_stack"
    /\ calls' = Append(calls, Call("create_stack", "", Tags))
    /\ \/ pc' = (IF wait THEN "cf_create_wait" ELSE "done") /\ err' = err
       \/ pc' = "failed" /\ \E m \in Messages : err' = ClientError(m)
    /\ UNCHANGED <<resVars, buildVars, inputs, shVars, gcpVars, method, Tags, updReview, csName, answer, invalid, disp,
                   updErr, createCalls, updateReturned, probes, exitCode>>

\* create(wait=True): the stack_create_complete waiter.
CfCreateWait ==
    /\ pc = "cf_create_wait"
    /\ calls' = Append(calls, Call("wait_stack_create_complete", "", NoTags))
    /\ \/ pc' = "done" /\ err' = err
       \/ pc' = "failed" /\ err' = WaiterError
    /\ UNCHANGED <<resVars, buildVars, inputs, shVars, gcpVars, method, Tags, updReview, csName, answer, invalid, disp,
                   updErr, createCalls, updateReturned, probes, exitCode>>

\* delete(): Stack(StackName).delete()
CfDelete ==
    /\ pc = "cf_delete"
    /\ calls' = Append(calls, Call("delete_stack", "", NoTags))
    /\ \/ pc' = (IF wait THEN "cf_delete_wait" ELSE "done") /\ err' = err
       \/ pc' = "failed" /\ \E m \in Messages : err' = ClientError(m)
    /\ UNCHANGED <<resVars, buildVars, inputs, shVars, gcpVars, method, Tags, updReview, csName, answer, invalid, disp,
                   updErr, createCalls, updateReturned, probes, exitCode>>

\* delete(wait=True): the stack_delete_complete waiter.
CfDeleteWait ==
    /\ pc = "cf_delete_wait"
    /\ calls' = Append(calls, Call("wait_stack_delete_complete", "", NoTags))
    /\ \/ pc' = "done" /\ err' = err
       \/ pc' = "failed" /\ err' = WaiterError
    /\ UNCHANGED <<resVars, buildVars, inputs, shVars, gcpVars, method, Tags, updReview, csName, answer, invalid, disp,
                   updErr, createCalls, updateReturned, probes, exitCode>>

\* render() of the three classes: the attributes (Actions, project and body)
\* are dumped to the screen; nothing is called.
Render ==
    /\ pc = "render"
    /\ pc' = "done"
    /\ UNCHANGED <<resVars, buildVars, inputs, shVars, gcpVars, method, Tags, err, calls, updReview, csName, answer, invalid,
                   disp, updErr, createCalls, updateReturned, probes, exitCode>>

(***************************************************************************)
(* ShellStack.                                                             *)
(***************************************************************************)
\* create, delete and update call _execute with their own action name.
\* Faulty variant: every verb executes Create.
ShellActionAlwaysCreate(m) == "Create"

ShellAction(m) ==
    CASE m = "create" -> "Create"
      [] m = "delete" -> "Delete"
      [] m = "update" -> "Update"

\* The return codes the model lets the local command end with: success, an
\* exit code, and the negative number Popen gives a command killed by a
\* signal (which has no exit code).
ExitCodes == {0, 3, -9}

\* `if not commands`: None, "" and [] are false.
CommandsFalsy(c) == c.type \in {"str", "list"} /\ c.text = <<>>

\* `if process.returncode: ... raise SystemExit(process.returncode)`
\* Faulty variant: the return code is ignored.
CommandFailedNever(rc) == FALSE

CommandFailed(rc) == rc # 0

\* The exit status the interpreter gives the process for the exception that
\* ended it: the integer of a SystemExit (in 0..255), 1 for a message or any
\* other exception, 0 for none.  No SystemExit of the model has an empty
\* message.
ExitStatus(e) ==
    CASE e.kind = "none" -> 0
      [] e.kind = "SystemExit" /\ e.msg = <<>> -> e.code % 256
      [] OTHER -> 1

\* _execute: an action missing from Actions ends the run, and so do Commands
\* that are empty or neither string nor list; otherwise the command runs
\* once, in the merged environment (through the shell when it is a string),
\* and a non-zero return code ends the run with that code.
ShExecute ==
    /\ pc = "sh_execute"
    /\ LET a == ShellAction(method) IN
        IF a \notin DOMAIN Actions
        THEN /\ pc' = "failed"
             /\ err' = SystemExit(<<"Action", "not", "available:", a>>)
             /\ UNCHANGED <<calls, exitCode, popenArgs>>
        ELSE IF CommandsFalsy(Actions[a])
        THEN /\ pc' = "failed"
             /\ err' = SystemExit(<<"At", "least", "one", "command", "must",
                                   "be", "specified", "in", "a", "shell",
                                   "stack">>)
             /\ UNCHANGED <<calls, exitCode, popenArgs>>
        ELSE IF Actions[a].type \notin {"str", "list"}
        THEN /\ pc' = "failed"
             /\ err' = SystemExit(<<"commands", "must", "be", "non", "a",
                                   "empty", "list", "or", "str:">>)
             /\ UNCHANGED <<calls, exitCode, popenArgs>>
        ELSE /\ calls' = Append(calls, Call("Popen", "", NoTags))
             /\ popenArgs' =
                   [commands |-> Actions[a].text,
                    env |-> MergeEnv(environ, docEnvironment, docActionEnv,
                                     buildId),
                    shell |-> Actions[a].type = "str"]
             /\ \E rc \in ExitCodes :
                 /\ exitCode' = rc
                 /\ IF CommandFailed(rc)
                    THEN pc' = "failed" /\ err' = SystemExitInt(rc)
                    ELSE pc' = "done" /\ err' = err
    /\ UNCHANGED <<resVars, buildVars, inputs, gcpVars, environ, Actions, method, Tags, updReview,
                   csName, answer, invalid, disp, updErr, createCalls,
                   updateReturned, probes>>

\* The process the stack object lives in changes its environment between
\* the construction of the object and the call of the verb: FOO gets a new
\* value.
EnvChange ==
    /\ pc = "dispatch"
    /\ stackType = "shell"
    /\ environ' = Override(environ, {<<"FOO", LaterValue>>})
    /\ environ' # environ
    /\ UNCHANGED <<resVars, buildVars, inputs, gcpVars, Actions, popenArgs, method, pc, Tags, err,
                   calls, updReview, csName, answer, invalid, disp, updErr,
                   createCalls, updateReturned, probes, exitCode>>

(***************************************************************************)
(* GCPStack.                                                               *)
(***************************************************************************)
\* get(): `except HttpError as exc`: a 404 is answered by {} ...
\* Faulty variant: a 404 ends the run as the other errors do.
GetFailsOn404Too(o) == o.http # "200"

GetFails(o) == o.http \notin {"200", "404"}

\* ... and any other error ends the run with
\* SystemExit("HTTP error {}: {}".format(status, content)).
GetExit(o) == SystemExit(<<"HTTP", "error", o.http \o ":", o.content>>)

\* get(): the value returned when it returns.
GetValue(o) == IF o.http = "200" THEN Deployment(o.status) ELSE EmptyDict

\* `not self.get()`: the empty dict is false.
\* Faulty variant: every answer counts as a deployment.
GetIsEmptyNever(o) == FALSE

GetIsEmpty(o) == GetValue(o) = EmptyDict

\* upsert(): `if self.get(): self.update(...) else: self.create(...)`
\* Faulty variant: the branches are swapped.
UpsertBranchSwapped(o) == IF GetIsEmpty(o) THEN "gcp_update" ELSE "gcp_create"

UpsertBranch(o) == IF GetIsEmpty(o) THEN "gcp_create" ELSE "gcp_update"

\* wait(): `if deployment and deployment["operation"]["status"] == "DONE": break`
\* Faulty variant: the loop never breaks.
ProbeEndsNever(v) == FALSE

ProbeEnds(v) == v.exists /\ v.status = "DONE"

\* upsert(): update if get() is non-empty, create otherwise.
GcpUpsertGet ==
    /\ pc = "gcp_upsert_get"
    /\ calls' = Append(calls, Call("deployments.get", "", NoTags))
    /\ \E o \in GetOutcomes :
        IF GetFails(o)
        THEN /\ pc' = "failed"
             /\ err' = GetExit(o)
             /\ lastGet' = [reply |-> o, value |-> EmptyDict]
             /\ createCalls' = createCalls
        ELSE /\ pc' = UpsertBranch(o)
             /\ err' = err
             /\ lastGet' = [reply |-> o, value |-> GetValue(o)]
             /\ createCalls' = IF UpsertBranch(o) = "gcp_create"
                                THEN createCalls + 1 ELSE createCalls
    /\ UNCHANGED <<resVars, buildVars, inputs, shVars, insertLog, method, Tags, updReview,
                   csName, answer, invalid, disp, updErr, updateReturned,
                   probes, exitCode>>

\* What follows the remote call of create, update and delete: wait() if
\* wait, else the verb returns; an HttpError of the call ends the run.
AfterGcpCall ==
    \/ pc' = (IF wait THEN "gcp_wait" ELSE "done") /\ err' = err
    \/ pc' = "failed" /\ err' = HttpError

\* create(): deployments().insert(project=self.project, body=self.body)
GcpCreate ==
    /\ pc = "gcp_create"
    /\ calls' = Append(calls, Call("deployments.insert", "", Tags))
    /\ insertLog' = Append(insertLog, [by |-> "create", project |-> Project,
                                       body |-> Body(stackName, Tags)])
    /\ AfterGcpCall
    /\ UNCHANGED <<resVars, buildVars, inputs, shVars, lastGet, method, Tags, updReview,
                   csName, answer, invalid, disp, updErr, createCalls,
                   updateReturned, probes, exitCode>>

\* update(): deployments().insert(project=self.project, body=self.body)
GcpUpdate ==
    /\ pc = "gcp_update"
    /\ calls' = Append(calls, Call("deployments.insert", "", Tags))
    /\ insertLog' = Append(insertLog, [by |-> "update", project |-> Project,
                                       body |-> Body(stackName, Tags)])
    /\ AfterGcpCall
    /\ UNCHANGED <<resVars, buildVars, inputs, shVars, lastGet, method, Tags, updReview,
                   csName, answer, invalid, disp, updErr, createCalls,
                   updateReturned, probes, exitCode>>

\* delete(): get() first; no deployment ends the run.
GcpDeleteGet ==
    /\ pc = "gcp_delete_get"
    /\ calls' = Append(calls, Call("deployments.get", "", NoTags))
    /\ \E o \in GetOutcomes :
        IF GetFails(o)
        THEN /\ pc' = "failed"
             /\ err' = GetExit(o)
             /\ lastGet' = [reply |-> o, value |-> EmptyDict]
        ELSE /\ lastGet' = [reply |-> o, value |-> GetValue(o)]
             /\ IF GetIsEmpty(o)
                THEN /\ pc' = "failed"
                     /\ err' = SystemExit(<<"Deployment", "doesn't", "exist:",
                                           stackName>>)
                ELSE pc' = "gcp_delete" /\ err' = err
    /\ UNCHANGED <<resVars, buildVars, inputs, shVars, insertLog, method, Tags, updReview,
                   csName, answer, invalid, disp, updErr, createCalls,
                   updateReturned, probes, exitCode>>

\* delete(): deployments().delete(project, deployment), then wait().
GcpDelete ==
    /\ pc = "gcp_delete"
    /\ calls' = Append(calls, Call("deployments.delete", "", NoTags))
    /\ AfterGcpCall
    /\ UNCHANGED <<resVars, buildVars, inputs, shVars, gcpVars, method, Tags, updReview,
                   csName, answer, invalid, disp, updErr, createCalls,
                   updateReturned, probes, exitCode>>

\* wait(): one turn of `for i in range(0, n_probes)`: sleep, get(), and
\* break when the deployment is there with its operation DONE.
GcpWaitProbe ==
    /\ pc = "gcp_wait"
    /\ probes < NProbes
    /\ probes' = probes + 1
    /\ calls' = Append(calls, Call("deployments.get", "", NoTags))
    /\ \E o \in GetOutcomes :
        IF GetFails(o)
        THEN /\ pc' = "failed"
             /\ err' = GetExit(o)
             /\ lastGet' = [reply |-> o, value |-> EmptyDict]
        ELSE /\ pc' = IF ProbeEnds(GetValue(o)) THEN "done" ELSE pc
             /\ err' = err
             /\ lastGet' = [reply |-> o, value |-> GetValue(o)]
    /\ UNCHANGED <<resVars, buildVars, inputs, shVars, insertLog, method, Tags, updReview,
                   csName, answer, invalid, disp, updErr, createCalls,
                   updateReturned, exitCode>>

\* wait(): the loop is exhausted; wait() returns.
GcpWaitExhausted ==
    /\ pc = "gcp_wait"
    /\ probes = NProbes
    /\ pc' = "done"
    /\ UNCHANGED <<resVars, buildVars, inputs, shVars, gcpVars, method, Tags, err, calls,
                   updReview, csName, answer, invalid, disp, updErr,
                   createCalls, updateReturned, probes, exitCode>>

\* validate(): pass
GcpValidate ==
    /\ pc = "gcp_validate"
    /\ pc' = "done"
    /\ UNCHANGED <<resVars, buildVars, inputs, shVars, gcpVars, method, Tags, err, calls, updReview, csName, answer, invalid,
                   disp, updErr, createCalls, updateReturned, probes, exitCode>>

Next ==
    \/ Construct
    \/ Dispatch
    \/ CfValidate
    \/ CsCreate
    \/ CsWait
    \/ CsDescribe
    \/ ChangesetUserInput
    \/ CfUpdateStack
    \/ CfUpdateWait
    \/ CfCreateStack
    \/ CfCreateWait
    \/ CfDelete
    \/ CfDeleteWait
    \/ Render
    \/ ShExecute
    \/ GcpUpsertGet
    \/ GcpCreate
    \/ GcpUpdate
    \/ GcpDeleteGet
    \/ GcpDelete
    \/ GcpWaitProbe
    \/ GcpWaitExhausted
    \/ GcpValidate

Init == RunInit /\ ResolverIdle /\ BuildIdle

vars == <<runVars, resVars, buildVars>>

Spec == Init /\ [][Next]_vars

\* The run goes on as long as it has a step to take: one thread, blocking
\* calls, nothing to wait for but the answers.
SpecLive == Spec /\ WF_vars(Next)

(***************************************************************************)
(* A ShellStack in a process whose environment may change.                 *)
(***************************************************************************)
InitShell == ShellInit /\ ResolverIdle /\ BuildIdle

NextShell ==
    \/ Construct
    \/ Dispatch
    \/ EnvChange
    \/ ShExecute
    \/ Render

SpecShell == InitShell /\ [][NextShell]_vars

(***************************************************************************)
(* The construction of a stack object.                                     *)
(***************************************************************************)
\* Stack.factory(**kwargs): the type key found is popped, the class of its
\* lower-cased value is called with what is left; an unknown type ends the
\* process.
Factory ==
    /\ bpc = "factory"
    /\ LET k == FirstTypeKey(document)
           t == FactoryType(document)
       IN  /\ attrs' = {p \in document : p[1] # k}
           /\ cls' = FactoryClass(t)
           /\ IF FactoryClass(t) = ""
              THEN /\ bpc' = "failed"
                   /\ berr' = SystemExit(<<"Stack", "type", "not",
                                           "supported:", t>>)
              ELSE /\ bpc' = "init"
                   /\ berr' = berr
    /\ UNCHANGED <<resVars, runVars, document, templateRef, rendered, template,
                   target, body, sent>>

\* CloudformationStack.__init__, the end: Tags gets its build_id entry and
\* BuildId is deleted.
\* Faulty variant: BuildId is left among the attributes.
CfFinishKeepsBuildId(a) ==
    DictSet(a, "Tags", WithBuildId(DictGet(a, "Tags", ""),
                                   DictGet(a, "BuildId", "")))

CfFinish(a) ==
    DictDel(DictSet(a, "Tags", WithBuildId(DictGet(a, "Tags", ""),
                                            DictGet(a, "BuildId", ""))),
            "BuildId")

\* CloudformationStack.__init__: a dict TemplateBody is dumped; a path is
\* read and parsed by its extension.  mako gives Parameters its build_id
\* (making Parameters when there is none); jinja, json and yaml read
\* self.Parameters as it is, an AttributeError when there is none; mako and
\* jinja delete Parameters after rendering; parse_json and parse_yaml only
\* raise.
CfInit ==
    /\ bpc = "init"
    /\ cls = "CloudformationStack"
    /\ LET kind == TemplateKind(templateRef)
           dumped == DictSet(attrs, "TemplateBody", "yaml")
       IN  CASE kind = "dict" ->
                    /\ attrs' = CfFinish(dumped)
                    /\ bpc' = "built"
                    /\ UNCHANGED <<berr, rendered, template>>
             [] kind = "other" ->
                    /\ bpc' = "failed"
                    /\ berr' = SystemExit(<<"file", "extension", "not",
                                            "supported">>)
                    /\ UNCHANGED <<attrs, rendered, template>>
             [] kind \in {"jinja", "json", "yaml"} /\ ~HasKey(attrs, "Parameters") ->
                    /\ bpc' = "failed"
                    /\ berr' = AttributeError("Parameters")
                    /\ UNCHANGED <<attrs, rendered, template>>
             [] kind \in {"json", "yaml"} /\ HasKey(attrs, "Parameters") ->
                    /\ bpc' = "failed"
                    /\ berr' = SystemExit(<<kind, "templates", "not", "yet",
                                            "supported">>)
                    /\ UNCHANGED <<attrs, rendered, template>>
             [] OTHER ->
                    \/ /\ kind = "mako"
                       /\ bpc' = "failed"
                       /\ berr' = SystemExit(<<"mako", "text_error_template">>)
                       /\ attrs' = DictSet(attrs, "Parameters", "params")
                       /\ UNCHANGED <<rendered, template>>
                    \/ \E r \in RenderedTemplates :
                          /\ rendered' = r
                          /\ template' = ParseOutputs(DictGet(attrs, "StackName", ""), r)
                          /\ attrs' = CfFinish(DictDel(dumped, "Parameters"))
                          /\ bpc' = "built"
                          /\ berr' = berr
    /\ UNCHANGED <<resVars, runVars, document, templateRef, cls, target, body,
                   sent>>

\* ShellStack.__init__: Shell and Environment get their defaults.
ShInit ==
    /\ bpc = "init"
    /\ cls = "ShellStack"
    /\ attrs' = Override({<<"Shell", "/bin/bash">>, <<"Environment", "{}">>}, attrs)
    /\ bpc' = "built"
    /\ UNCHANGED <<resVars, runVars, document, templateRef, cls, berr, rendered,
                   template, target, body, sent>>

\* GCPStack.__init__: labels gets its build_id entry; target is assembled
\* from the imports, resources and outputs attributes, and then body from
\* the attributes named in GCP_DEPLOYMENT_BODY_KEYS.
GcpInit ==
    /\ bpc = "init"
    /\ cls = "GCPStack"
    /\ LET labelled == DictSet(attrs, "labels",
                               WithBuildId(DictGet(attrs, "labels", ""),
                                           DictGet(attrs, "BuildId", "")))
           targeted == DictSet(labelled, "target", "target")
           b == {p \in targeted : p[1] \in GCP_DEPLOYMENT_BODY_KEYS}
       IN  /\ target' = {p \in labelled : p[1] \in ConfigKeys}
           /\ body' = b
           /\ attrs' = DictSet(targeted, "body", "body")
    /\ bpc' = "built"
    /\ UNCHANGED <<resVars, runVars, document, templateRef, cls, berr, rendered,
                   template, sent>>

\* create_stack(**self.__dict__), Stack.update(**self.__dict__) and
\* create_change_set(ChangeSetName=..., ChangeSetType="UPDATE",
\* **self.__dict__) of the Cloudformation stack;
\* deployments().insert(project=self.project, body=self.body) of the GCP one.
HandOver ==
    /\ bpc = "built"
    /\ cls \in {"CloudformationStack", "GCPStack"}
    /\ bpc' = "sent"
    /\ IF cls = "GCPStack"
       THEN sent' = [op |-> "deployments.insert",
                     kwargs |-> {<<"project", DictGet(attrs, "project", "")>>,
                                 <<"body", "body">>},
                     body |-> body]
       ELSE \E op \in {"create_stack", "update_stack", "create_change_set"} :
              sent' = [op |-> op,
                       kwargs |-> IF op = "create_change_set"
                                  THEN attrs \cup {<<"ChangeSetName", "name">>,
                                                   <<"ChangeSetType", "UPDATE">>}
                                  ELSE attrs,
                       body |-> {}]
    /\ UNCHANGED <<resVars, runVars, document, templateRef, attrs, cls, berr,
                   rendered, template, target, body>>

(***************************************************************************)
(* A process calling the resolver.                                         *)
(***************************************************************************)
\* The command line is not run: the resolver calls of one process.
RunIdle ==
    /\ stackType = "cloudformation"
    /\ action = "list"
    /\ wait = FALSE
    /\ review = FALSE
    /\ buildId = "b1"
    /\ stackName = "web"
    /\ docTags = AbsentTags
    /\ docActions = {}
    /\ docCommands = "str"
    /\ docEnvironment = {}
    /\ docActionEnv = {}
    /\ startEnviron = {}
    /\ environ = {}
    /\ Actions = [k \in {} |-> DocCommand("str", k)]
    /\ popenArgs = NoPopen
    /\ lastGet = NoGet
    /\ insertLog = <<>>
    /\ method = ""
    /\ pc = "idle"
    /\ Tags = NoTags
    /\ err = NoErr
    /\ calls = <<>>
    /\ updReview = FALSE
    /\ csName = ""
    /\ answer = ""
    /\ invalid = 0
    /\ disp = <<>>
    /\ updErr = NoErr
    /\ createCalls = 0
    /\ updateReturned = FALSE
    /\ probes = 0
    /\ exitCode = 0

ResolveOutput ==
    /\ \E name \in Names, key \in OutputKeys, provider \in Providers :
            GetStackOutput(name, key, provider)
    /\ UNCHANGED <<runVars, buildVars>>

ResolveResource ==
    /\ \E name \in Names, rid \in ResourceIds : GetStackResource(name, rid)
    /\ UNCHANGED <<runVars, buildVars>>

InitResolver == ResolverInit /\ RunIdle /\ BuildIdle

NextResolver ==
    \/ ResolveOutput
    \/ ResolveResource

SpecResolver == InitResolver /\ [][NextResolver]_vars

(***************************************************************************)
(* The construction of a stack object, followed attribute by attribute.    *)
(***************************************************************************)
InitBuild == BuildInit /\ RunIdle /\ ResolverIdle

NextBuild ==
    \/ Factory
    \/ CfInit
    \/ ShInit
    \/ GcpInit
    \/ HandOver

SpecBuild == InitBuild /\ [][NextBuild]_vars

(***************************************************************************)
(* Properties of a run.                                                    *)
(***************************************************************************)
\* The calls of the log made with operation in ops.
CallsOf(ops) == {i \in 1..Len(calls) : calls[i].op \in ops}

ChangeSetOps == {"create_change_set", "wait_change_set_create_complete",
                 "describe_change_set", "execute_change_set",
                 "delete_change_set"}

\* C1: in upsert of the Cloudformation stack, when the update attempt raises
\* a ClientError whose message contains "does not exist", create is entered
\* exactly once afterwards (and create_stack is called at most once, exactly
\* once when the run ends well); when the update attempt raises anything
\* else, that exception ends the run unchanged and create is never entered.
C1_UpsertFallback ==
    (stackType = "cloudformation" /\ action = "upsert" /\ updErr # NoErr) =>
        IF updErr.kind = "ClientError"
              /\ Contains(<<"does", "not", "exist">>, updErr.msg)
        THEN /\ createCalls = 1
             /\ Cardinality(CallsOf({"create_stack"})) <= 1
             /\ pc = "done" => Cardinality(CallsOf({"create_stack"})) = 1
        ELSE /\ createCalls = 0
             /\ CallsOf({"create_stack"}) = {}
             /\ pc = "failed"
             /\ err = updErr

C1_Witness ==
    /\ stackType = "cloudformation"
    /\ action = "upsert"
    /\ updErr = ClientError(MsgStackMissing)
    /\ createCalls = 1
    /\ pc = "done"
    /\ CallsOf({"create_stack"}) # {}

\* C5: every lifecycle verb the command line dispatches is a method of the
\* class the factory returned, whichever the backend.
C5_AllVerbsDefined ==
    (pc = "dispatch" /\ action \in LifecycleVerbs) =>
        DispatchMethod(action) \in Methods(stackType)

\* C6: one turn of the change-set prompt: "e" makes exactly one
\* execute_change_set call and leaves the loop, "d" exactly one
\* delete_change_set call and leaves the loop, "k" makes no call and leaves
\* the loop, and any other answer makes no call and prompts again.
C6_ReviewLoop ==
    [][pc = "cs_prompt" =>
        /\ answer' = "e" =>
              /\ calls' = Append(calls, Call("execute_change_set", csName, NoTags))
              /\ pc' # "cs_prompt"
        /\ answer' = "d" =>
              /\ calls' = Append(calls, Call("delete_change_set", csName, NoTags))
              /\ pc' # "cs_prompt"
        /\ answer' = "k" => calls' = calls /\ pc' # "cs_prompt"
        /\ answer' \notin {"e", "d", "k"} => calls' = calls /\ pc' = "cs_prompt"
    ]_vars

C6_Witness ==
    /\ invalid = MaxInvalid
    /\ answer = "e"
    /\ pc = "done"
    /\ Cardinality(CallsOf({"execute_change_set"})) = 1

\* C7: an update with review on the Cloudformation stack returns normally
\* only with its change set disposed of exactly once (executed, deleted or
\* kept); it has not returned while the prompt is open, and a change set is
\* never disposed of twice.
C7_OneDisposition ==
    /\ Len(disp) <= 1
    /\ Cardinality(CallsOf({"execute_change_set", "delete_change_set"}))
          + (IF disp = <<"kept">> THEN 1 ELSE 0) <= 1
    /\ pc = "cs_prompt" => ~updateReturned /\ disp = <<>>
    /\ (stackType = "cloudformation" /\ updReview /\ updateReturned) =>
          Len(disp) = 1

C7_Witness ==
    /\ stackType = "cloudformation"
    /\ action = "update"
    /\ updReview
    /\ updateReturned
    /\ invalid > 0
    /\ disp = <<"deleted">>

\* C8: every change-set call of an update (create, wait, describe, execute,
\* delete) is given the name "{StackName}-{BuildId}", BuildId being the build
\* id the run was started with, also when the author's Tags hold a build_id
\* entry of their own.
C8_ChangeSetName ==
    \A i \in CallsOf(ChangeSetOps) : calls[i].cs = stackName \o "-" \o buildId

C8_Witness ==
    /\ CallsOf({"execute_change_set"}) # {}
    /\ \/ docTags.kind = "dict" /\ \E p \in docTags.map : p[1] = "build_id"
       \/ docTags.kind = "list"
            /\ \E i \in 1..Len(docTags.items) : docTags.items[i][1] = "build_id"
    /\ \A i \in CallsOf(ChangeSetOps) : calls[i].cs = stackName \o "-" \o buildId

\* C9: for a document whose Tags (labels) is a mapping, or absent, the
\* constructed attribute is a list holding exactly one entry per original
\* key, with its value, and exactly one injected build_id entry carrying the
\* build id, which comes last; and no call is ever handed a mapping.
C9_TagsNormalized ==
    /\ (pc # "construct" /\ stackType \in {"cloudformation", "gcp"}
            /\ docTags.kind \in {"dict", "absent"}) =>
          /\ Tags.kind = "list"
          /\ Len(Tags.items) = Cardinality(docTags.map) + 1
          /\ Tags.items[Len(Tags.items)] = <<"build_id", buildId>>
          /\ \A p \in docTags.map :
                Cardinality({i \in 1..(Len(Tags.items) - 1) :
                                Tags.items[i][1] = p[1]}) = 1
                /\ \E i \in 1..(Len(Tags.items) - 1) : Tags.items[i] = p
    /\ \A i \in 1..Len(calls) : calls[i].tags.kind \in {"none", "list"}

C9_Witness ==
    /\ docTags.kind = "dict"
    /\ Cardinality(docTags.map) = 2
    /\ pc = "done"
    /\ \E i \in 1..Len(calls) :
          /\ calls[i].tags.kind = "list"
          /\ Len(calls[i].tags.items) = 3

\* C10: a run of the render action, on any backend, issues no call that
\* changes remote state and runs no local command.
C10_RenderIsReadOnly ==
    action = "render" => CallsOf(MutatingOps) = {}

C10_Witness ==
    /\ action = "render"
    /\ stackType = "gcp"
    /\ pc = "done"
    /\ CallsOf(MutatingOps) = {}

C3_AbsentKeyIsEmpty ==
    LET remote == IF lastCall.provider = "cloudformation"
                  THEN remoteCf[lastCall.name] ELSE remoteGcp[lastCall.name]
    IN  (lastCall.fn = "get_stack_output" /\ remote.exists) =>
            /\ rpc = "ready"
            /\ lastResult = DictGet(remote.outputs, lastCall.key, "")

\* C4: after any sequence of get_stack_resource calls of one process, the
\* remote fetches made are as many as the distinct (stack, resource id)
\* pairs looked up, so a pair seen before costs no fetch and a cached pair
\* never stands in for another; and every call that returns gives the
\* physical id of the pair it was asked for.
C4_OneFetchPerPair ==
    /\ resFetches = Cardinality(pairsLooked)
    /\ (lastCall.fn = "get_stack_resource" /\ rpc = "ready") =>
          lastResult = PhysicalId(lastCall.name, lastCall.key)

C4_Witness ==
    /\ rpc = "ready"
    /\ nLookups = 3
    /\ namesLooked = {}
    /\ pairsLooked = {<<"vpc", "VPC">>, <<"vpc", "Subnet">>}
    /\ resFetches = 2
    /\ lastCall.fn = "get_stack_resource"
    /\ lastResult = "vpc/VPC"

\* C11: create and update of the Cloudformation stack (and upsert, which
\* calls them) call validate_template before any call that changes the
\* stack or a change set; and when the validation of a create or update run
\* fails, the run ends with SystemExit carrying the provider's message as it
\* came, and create_stack, update_stack and create_change_set are never
\* called.
C11_ValidateBeforeMutation ==
    (stackType = "cloudformation" /\ method \in {"create", "update", "upsert"}) =>
        /\ \A i \in CallsOf({"create_stack", "update_stack", "create_change_set",
                             "execute_change_set", "delete_change_set"}) :
              \E j \in 1..(i - 1) : calls[j].op = "validate_template"
        /\ (method \in {"create", "update"} /\ err.kind = "SystemExit") =>
              /\ pc = "failed"
              /\ err.msg \in Messages
              /\ calls = <<Call("validate_template", "", NoTags)>>

C11_Witness ==
    /\ stackType = "cloudformation"
    /\ method = "update"
    /\ pc = "failed"
    /\ err = SystemExit(MsgDenied)
    /\ calls = <<Call("validate_template", "", NoTags)>>

\* C12: an update of the Cloudformation stack without review calls
\* update_stack at most once, with the instance's attributes, and exactly
\* once as soon as validate() has passed; it makes no change-set call and
\* never asks the operator.  An update with review never calls update_stack.
C12_ReviewSelectsPath ==
    (stackType = "cloudformation" /\ method = "update") =>
        /\ ~review =>
              /\ Cardinality(CallsOf({"update_stack"})) <= 1
              /\ \A i \in CallsOf({"update_stack"}) : calls[i].tags = Tags
              /\ CallsOf(ChangeSetOps) = {}
              /\ answer = "" /\ invalid = 0 /\ disp = <<>>
              /\ (\/ pc \in {"cf_update_wait", "done"}
                  \/ pc = "failed" /\ err.kind # "SystemExit") =>
                    Cardinality(CallsOf({"update_stack"})) = 1
        /\ review => CallsOf({"update_stack"}) = {}

C12_Witness ==
    /\ stackType = "cloudformation"
    /\ method = "update"
    /\ ~review
    /\ pc = "done"
    /\ Tags.items # <<>>
    /\ calls = <<Call("validate_template", "", NoTags),
                 Call("update_stack", "", Tags)>>

(***************************************************************************)
(* Properties of a ShellStack run.                                         *)
(***************************************************************************)
\* C13: the environment handed to the command holds, for a variable, the
\* value of the action's Environment if it has one, else that of the
\* stack-wide Environment if it has one, else that of the process
\* environment as it is when the command starts; and its BUILD_ID is the
\* build id of the run, whatever BUILD_ID the three layers carry.
C13_CommandEnvironment ==
    (stackType = "shell" /\ CallsOf({"Popen"}) # {}) =>
        /\ \A p \in popenArgs.env : p[1] \in EnvKeys
        /\ {p \in popenArgs.env : p[1] = "BUILD_ID"} = {<<"BUILD_ID", buildId>>}
        /\ {p \in popenArgs.env : p[1] = "FOO"} =
              IF HasKey(docActionEnv, "FOO") THEN {<<"FOO", "a">>}
              ELSE IF HasKey(docEnvironment, "FOO") THEN {<<"FOO", "s">>}
              ELSE {p \in environ : p[1] = "FOO"}

C13_Witness ==
    /\ stackType = "shell"
    /\ CallsOf({"Popen"}) # {}
    /\ <<"BUILD_ID", "b0">> \in startEnviron
    /\ <<"BUILD_ID", "b0">> \in docEnvironment
    /\ <<"BUILD_ID", "b0">> \in docActionEnv
    /\ <<"FOO", "q">> \in environ
    /\ <<"FOO", "s">> \in docEnvironment
    /\ <<"FOO", "a">> \in docActionEnv
    /\ popenArgs.env = {<<"FOO", "a">>, <<"BUILD_ID", buildId>>}

\* C14: a run of create, delete or update of a ShellStack ends well exactly
\* when its command ran and returned 0; a command that exits with a code n
\* above 0 ends the run with SystemExit(n), so that the process exits with
\* status n; and the command is started once, whatever it returns.
C14_ExitCodePropagates ==
    (stackType = "shell" /\ method \in {"create", "delete", "update"}) =>
        /\ Cardinality(CallsOf({"Popen"})) <= 1
        /\ pc = "done" <=> (CallsOf({"Popen"}) # {} /\ exitCode = 0)
        /\ pc = "done" => err = NoErr /\ ExitStatus(err) = 0
        /\ (CallsOf({"Popen"}) # {} /\ exitCode # 0) =>
              /\ pc = "failed"
              /\ err = SystemExitInt(exitCode)
              /\ exitCode > 0 => ExitStatus(err) = exitCode

C14_Witness ==
    /\ stackType = "shell"
    /\ method = "create"
    /\ pc = "failed"
    /\ exitCode = 3
    /\ ExitStatus(err) = 3
    /\ Cardinality(CallsOf({"Popen"})) = 1

\* C15: when Commands is a string with the placeholder $FOO and FOO is set
\* when the stack object is built, the stored text of every action holds
\* the value FOO had then in place of the placeholder, from construction on
\* and whatever FOO becomes later; and the text given to Popen is that
\* stored text.
C15_ExpandedAtConstruction ==
    (/\ stackType = "shell"
     /\ docCommands = "str"
     /\ HasKey(startEnviron, "FOO")
     /\ pc # "construct") =>
        /\ \A k \in docActions :
              Actions[k] = [type |-> "str", text |-> <<"run", k, "p">>]
        /\ CallsOf({"Popen"}) # {} =>
              /\ popenArgs.commands \in {Actions[k].text : k \in docActions}
              /\ popenArgs.commands[3] = "p"

C15_Witness ==
    /\ stackType = "shell"
    /\ docCommands = "str"
    /\ <<"FOO", "p">> \in startEnviron
    /\ <<"FOO", "q">> \in environ
    /\ CallsOf({"Popen"}) # {}
    /\ popenArgs.commands = <<"run", "Update", "p">>

\* C16: create of a ShellStack runs the Commands of Create and no other,
\* delete those of Delete, update those of Update, with review set or not;
\* and a verb whose action the Actions mapping does not have ends the run
\* with SystemExit("Action not available: ...") and no command is started.
C16_VerbRunsItsAction ==
    (stackType = "shell" /\ method \in {"create", "delete", "update"}) =>
        LET a == CASE method = "create" -> "Create"
                   [] method = "delete" -> "Delete"
                   [] method = "update" -> "Update"
        IN  /\ Cardinality(CallsOf({"Popen"})) <= 1
            /\ CallsOf({"Popen"}) # {} =>
                  /\ a \in docActions
                  /\ popenArgs.commands = Actions[a].text
                  /\ popenArgs.commands[2] = a
            /\ (a \notin docActions /\ pc # "sh_execute") =>
                  /\ pc = "failed"
                  /\ err = SystemExit(<<"Action", "not", "available:", a>>)
                  /\ calls = <<>>
                  /\ popenArgs = NoPopen

C16_Witness ==
    /\ stackType = "shell"
    /\ method = "update"
    /\ review
    /\ docActions = ShellActions
    /\ pc = "done"
    /\ popenArgs.commands[2] = "Update"

(***************************************************************************)
(* Properties of a GCPStack run.                                           *)
(***************************************************************************)
\* C17: get() of the GCP stack answers a 404 of the remote fetch with the
\* empty dict, and the run is not ended by it; any other HTTP error ends the
\* run with SystemExit("HTTP error <status>: <content>"); and a fetch that
\* succeeds is answered with the deployment fetched.
C17_GetTranslates404 ==
    (stackType = "gcp" /\ lastGet.reply # NoReply) =>
        LET o == lastGet.reply IN
        /\ o.http = "404" =>
              /\ lastGet.value = EmptyDict
              /\ ~Contains(<<"HTTP", "error">>, err.msg)
        /\ o.http \notin {"200", "404"} =>
              /\ pc = "failed"
              /\ err = SystemExit(<<"HTTP", "error", o.http \o ":", o.content>>)
        /\ o.http = "200" =>
              /\ lastGet.value = [exists |-> TRUE, status |-> o.status]
              /\ ~Contains(<<"HTTP", "error">>, err.msg)

C17_Witness ==
    /\ stackType = "gcp"
    /\ method = "upsert"
    /\ lastGet.reply.http = "404"
    /\ lastGet.value = EmptyDict
    /\ pc = "done"
    /\ err = NoErr

\* C18: wait() of the GCP stack ends: it makes at most
\* WaitTimeout \div WaitInterval probes; it is left right after the first
\* probe that finds the deployment with its operation DONE, so that a run
\* still waiting has seen no such probe; when every probe was answered and
\* none found DONE, it returns after the last one with no error (a probe
\* that get() ends with a fatal HTTP error ends the run, and nothing else
\* does); and a run that waits always comes to its end.
C18_WaitTerminates ==
    /\ [](stackType = "gcp" =>
            /\ probes <= WaitTimeout \div WaitInterval
            /\ (pc = "gcp_wait" /\ probes > 0) =>
                  ~(lastGet.value.exists /\ lastGet.value.status = "DONE")
            /\ (pc = "done" /\ probes > 0) =>
                  /\ err = NoErr
                  /\ \/ lastGet.value = [exists |-> TRUE, status |-> "DONE"]
                     \/ probes = WaitTimeout \div WaitInterval
            /\ (pc = "failed" /\ probes > 0) =>
                  /\ lastGet.reply.http \notin {"200", "404"}
                  /\ Contains(<<"HTTP", "error">>, err.msg))
    /\ (pc = "gcp_wait") ~> (pc \in {"done", "failed"})

C18_Witness ==
    /\ stackType = "gcp"
    /\ wait
    /\ pc = "done"
    /\ probes = WaitTimeout \div WaitInterval
    /\ lastGet.value = [exists |-> TRUE, status |-> "RUNNING"]
    /\ err = NoErr

\* C19: delete() of the GCP stack calls get() first; when get() finds no
\* deployment the run ends with SystemExit("Deployment doesn't exist: ...")
\* and deployments().delete is never called; when it finds one,
\* deployments().delete is called once, right after.
C19_DeleteChecksFirst ==
    (stackType = "gcp" /\ method = "delete" /\ pc # "gcp_delete_get") =>
        /\ calls # <<>> /\ calls[1].op = "deployments.get"
        /\ CallsOf({"deployments.delete"}) \subseteq {2}
        /\ probes = 0 =>
              /\ lastGet.reply.http = "404" =>
                    /\ pc = "failed"
                    /\ err = SystemExit(<<"Deployment", "doesn't", "exist:",
                                          stackName>>)
                    /\ Len(calls) = 1
              /\ lastGet.reply.http = "200" =>
                    \/ pc = "gcp_delete" /\ Len(calls) = 1
                    \/ CallsOf({"deployments.delete"}) = {2}
        /\ CallsOf({"deployments.delete"}) # {} =>
              /\ calls[1].op = "deployments.get"
              /\ probes = 0 => lastGet.reply.http = "200"

C19_Witness ==
    /\ stackType = "gcp"
    /\ method = "delete"
    /\ pc = "done"
    /\ lastGet.value = [exists |-> TRUE, status |-> "RUNNING"]
    /\ calls = <<Call("deployments.get", "", NoTags),
                 Call("deployments.delete", "", NoTags)>>

\* C20: upsert() of the GCP stack calls get() and then update() when a
\* deployment was found, create() when none was; either way, and in create
\* and update called directly, deployments().insert is called once, with the
\* project and the body of the instance: the same call whoever makes it.
C20_UpsertInsertsOnce ==
    (stackType = "gcp" /\ method \in {"create", "update", "upsert"}) =>
        /\ Len(insertLog) <= 1
        /\ Cardinality(CallsOf({"deployments.insert"})) = Len(insertLog)
        /\ \A i \in DOMAIN insertLog :
              /\ insertLog[i].project = "proj"
              /\ insertLog[i].body = [name |-> stackName, labels |-> Tags]
              /\ method # "upsert" => insertLog[i].by = method
        /\ (method \in {"create", "update"} /\ pc \in {"gcp_wait", "done", "failed"}) =>
              Len(insertLog) = 1
        /\ (method = "upsert" /\ lastGet.reply # NoReply) =>
              /\ calls[1].op = "deployments.get"
              /\ CallsOf({"deployments.insert"}) \subseteq {2}
              /\ probes = 0 =>
                    /\ lastGet.reply.http = "200" =>
                          \/ pc = "gcp_update" /\ insertLog = <<>>
                          \/ Len(insertLog) = 1 /\ insertLog[1].by = "update"
                    /\ lastGet.reply.http = "404" =>
                          \/ pc = "gcp_create" /\ insertLog = <<>>
                          \/ Len(insertLog) = 1 /\ insertLog[1].by = "create"
                    /\ lastGet.reply.http \notin {"200", "404"} =>
                          insertLog = <<>>

C20_Witness ==
    /\ stackType = "gcp"
    /\ method = "upsert"
    /\ pc = "done"
    /\ probes = 0
    /\ lastGet.reply.http = "200"
    /\ Len(insertLog) = 1
    /\ insertLog[1].by = "update"
    /\ Tags.items # <<>>

(***************************************************************************)
(* Properties of the construction.                                         *)
(***************************************************************************)
\* C21, as claimed: the factory takes the value of the first key the
\* document has among StackType, stack_type, Type, type, and removes that
\* key; with none of them it makes a CloudformationStack; a value that is
\* one of cloudformation, shell, gcp selects the class, and any other value
\* ends the process with an error naming that value.
C21_FactoryByValue ==
    (bpc \notin {"idle", "factory"}) =>
        LET k == IF HasKey(document, "StackType") THEN "StackType"
                 ELSE IF HasKey(document, "stack_type") THEN "stack_type"
                 ELSE IF HasKey(document, "Type") THEN "Type"
                 ELSE IF HasKey(document, "type") THEN "type"
                 ELSE ""
            v == DictGet(document, k, "cloudformation")
        IN  /\ bpc = "init" => attrs = {p \in document : p[1] # k}
            /\ v = "cloudformation" => cls = "CloudformationStack"
            /\ v = "shell" => cls = "ShellStack"
            /\ v = "gcp" => cls = "GCPStack"
            /\ v \notin {"cloudformation", "shell", "gcp"} =>
                  /\ bpc = "failed"
                  /\ berr = SystemExit(<<"Stack", "type", "not", "supported:", v>>)

\* C21, amended: the value is compared in lower case, so that Shell selects
\* the ShellStack as shell does, and the error of an unknown value names the
\* value in lower case.
C21_FactoryByLowerValue ==
    (bpc \notin {"idle", "factory"}) =>
        LET k == IF HasKey(document, "StackType") THEN "StackType"
                 ELSE IF HasKey(document, "stack_type") THEN "stack_type"
                 ELSE IF HasKey(document, "Type") THEN "Type"
                 ELSE IF HasKey(document, "type") THEN "type"
                 ELSE ""
            v == DictGet(document, k, "cloudformation")
        IN  /\ bpc = "init" => attrs = {p \in document : p[1] # k}
            /\ v = "cloudformation" => cls = "CloudformationStack"
            /\ v \in {"shell", "Shell"} => cls = "ShellStack"
            /\ v = "gcp" => cls = "GCPStack"
            /\ v = "Foo" =>
                  /\ bpc = "failed"
                  /\ cls = ""
                  /\ berr = SystemExit(<<"Stack", "type", "not", "supported:", "foo">>)

C21_Witness ==
    /\ bpc = "init"
    /\ <<"stack_type", "Shell">> \in document
    /\ <<"Type", "Foo">> \in document
    /\ <<"type", "gcp">> \in document
    /\ ~HasKey(document, "StackType")
    /\ cls = "ShellStack"
    /\ <<"type", "gcp">> \in attrs
    /\ ~HasKey(attrs, "stack_type")

\* C22: once a mako or jinja template is rendered, with resources R and
\* outputs O of its own, the Outputs of the final template have exactly the
\* keys of R and of O (as many as R and O have when they share none); every
\* output of O is there with the author's value, and every resource of R
\* without an output in O has the default one, which refers to the resource
\* and is exported as <stack name>-<resource name>.
C22_OutputsUnion ==
    (/\ bpc \in {"built", "sent"}
     /\ cls = "CloudformationStack"
     /\ templateRef \in {<<"t">> \o DotMako, <<"t">> \o DotJinja}) =>
        LET R == rendered.Resources
            O == rendered.Outputs
            Final == template.Outputs
            keys(d) == {p[1] : p \in d}
        IN  /\ IsDict(Final)
            /\ keys(Final) = R \cup keys(O)
            /\ (R \cap keys(O) = {}) =>
                  Cardinality(Final) = Cardinality(R) + Cardinality(O)
            /\ O \subseteq Final
            /\ \A k \in R \ keys(O) :
                  <<k, "Ref:" \o k \o ",Export:web-" \o k>> \in Final
            /\ template.Resources = R

C22_Witness ==
    /\ bpc = "built"
    /\ templateRef = <<"t">> \o DotMako
    /\ rendered.Resources = {"Vpc", "Db"}
    /\ rendered.Outputs = {<<"Vpc", "author">>, <<"Url", "author">>}
    /\ template.Outputs = {<<"Vpc", "author">>, <<"Url", "author">>,
                           <<"Db", "Ref:Db,Export:web-Db">>}

\* C23: the construction of a CloudformationStack whose TemplateBody is a
\* path ending in .json or .yaml, with Parameters or without, ends with a
\* "not yet supported" diagnostic; no stack is built and nothing is sent.
C23_RawDialectsRejected ==
    (/\ cls = "CloudformationStack"
     /\ bpc \notin {"idle", "factory", "init"}
     /\ LastChars(templateRef, 5) \in {DotJson, DotYaml}) =>
        /\ bpc = "failed"
        /\ berr.kind = "SystemExit"
        /\ Contains(<<"not", "yet", "supported">>, berr.msg)
        /\ sent = NoSend

(***************************************************************************)
(* More properties of a CloudformationStack run.                           *)
(***************************************************************************)
\* C24, as claimed: in an update with review, once the operator is at the
\* prompt the calls made are, in this order, validate, create_change_set of
\* type UPDATE, the wait for the change set to be created, a wait for the
\* change set to be ready for review, and describe_change_set.
C24_ReviewOrderTwoWaits ==
    (/\ stackType = "cloudformation" /\ method = "update" /\ review
     /\ pc = "cs_prompt") =>
        /\ Len(calls) >= 5
        /\ [i \in 1..5 |-> calls[i].op] =
              <<"validate_template", "create_change_set",
                "wait_change_set_create_complete",
                "wait_change_set_ready_for_review", "describe_change_set">>
        /\ calls[2].type = "UPDATE"

\* C24, amended: there is one wait, for the change set to be created.  The
\* calls of an update with review are always the first ones of validate,
\* create_change_set of type UPDATE, that wait and describe_change_set, in
\* this order; the operator is asked only after all four, and the
\* change set is executed or deleted only after them.
C24_ReviewOrder ==
    (stackType = "cloudformation" /\ method = "update" /\ review) =>
        LET order == <<"validate_template", "create_change_set",
                       "wait_change_set_create_complete",
                       "describe_change_set">>
        IN  /\ \A i \in 1..Len(calls) :
                  /\ i <= 4 => calls[i].op = order[i]
                  /\ calls[i].op = "create_change_set" => calls[i].type = "UPDATE"
                  /\ calls[i].op \in {"execute_change_set", "delete_change_set"}
                        => i = 5
            /\ (pc = "cs_prompt" \/ invalid > 0 \/ disp # <<>> \/ answer # "")
                  => Len(calls) >= 4

C24_Witness ==
    /\ stackType = "cloudformation" /\ method = "update" /\ review
    /\ pc = "done"
    /\ invalid = 1
    /\ answer = "d"
    /\ [i \in 1..Len(calls) |-> calls[i].op] =
          <<"validate_template", "create_change_set",
            "wait_change_set_create_complete", "describe_change_set",
            "delete_change_set">>
    /\ calls[2].type = "UPDATE"

\* C25: in one run of a verb, on any class, no call that changes remote
\* state (create, update or delete of a stack, create, execute or delete of
\* a change set, insert or delete of a deployment) and no local command is
\* made twice; no such call follows a wait for a stack, and the probes of
\* the GCP wait are deployments.get calls, the last calls of the run.
C25_NothingRetried ==
    /\ \A i, j \in 1..Len(calls) :
          (i < j /\ calls[i].op = calls[j].op) =>
              calls[i].op \notin
                  {"create_stack", "update_stack", "delete_stack",
                   "create_change_set", "execute_change_set",
                   "delete_change_set", "deployments.insert",
                   "deployments.delete", "Popen"}
    /\ \A i, j \in 1..Len(calls) :
          (i < j /\ calls[i].op \in {"wait_stack_create_complete",
                                     "wait_stack_update_complete",
                                     "wait_stack_delete_complete"}) =>
              calls[j].op \in {"wait_stack_update_complete"}
    /\ probes <= Len(calls)
    /\ \A i \in 1..Len(calls) :
          i > Len(calls) - probes => calls[i].op = "deployments.get"

C25_Witness ==
    /\ stackType = "cloudformation" /\ method = "upsert" /\ wait
    /\ pc = "done"
    /\ [i \in 1..Len(calls) |-> calls[i].op] =
          <<"validate_template", "validate_template", "create_change_set",
            "validate_template", "create_stack", "wait_stack_create_complete">>

(***************************************************************************)
(* Properties of what a built stack sends.                                 *)
(***************************************************************************)
\* C26: what a CloudformationStack hands to create_stack, to the update of
\* the stack and to create_change_set has no BuildId, and no Parameters
\* when the template was rendered by mako or jinja; the build id is in
\* Tags, appended to the Tags of the document, and is the value of no
\* attribute.
C26_ApiReadyAttributes ==
    (cls = "CloudformationStack" /\ sent # NoSend) =>
        LET bid == DictGet(document, "BuildId", "") IN
        /\ sent.op \in {"create_stack", "update_stack", "create_change_set"}
        /\ IsDict(sent.kwargs)
        /\ ~HasKey(sent.kwargs, "BuildId")
        /\ templateRef \in {<<"t">> \o DotMako, <<"t">> \o DotJinja} =>
              ~HasKey(sent.kwargs, "Parameters")
        /\ <<"Tags", DictGet(document, "Tags", "") \o "+build_id=" \o bid>>
              \in sent.kwargs
        /\ \A p \in sent.kwargs : p[2] # bid

C26_Witness ==
    /\ cls = "CloudformationStack"
    /\ templateRef = <<"t">> \o DotMako
    /\ <<"Parameters", "params">> \in document
    /\ <<"Tags", "tags">> \in document
    /\ <<"BuildId", "b1">> \in document
    /\ sent.op = "create_change_set"
    /\ <<"Tags", "tags+build_id=b1">> \in sent.kwargs
    /\ <<"ChangeSetType", "UPDATE">> \in sent.kwargs

\* C27: the body a GCPStack sends to deployments.insert has no key but
\* description, fingerprint, labels, name and target; it has target, and
\* labels with the build id appended to the labels of the document; its
\* description, fingerprint and name are the document's; and the config of
\* the target holds the resources, outputs and imports of the document and
\* nothing else.
C27_BodyAndTarget ==
    (cls = "GCPStack" /\ sent # NoSend) =>
        LET bid == DictGet(document, "BuildId", "")
            keys(d) == {p[1] : p \in d}
        IN  /\ sent.op = "deployments.insert"
            /\ IsDict(sent.body)
            /\ keys(sent.body) \subseteq
                  {"description", "fingerprint", "labels", "name", "target"}
            /\ {"labels", "target"} \subseteq keys(sent.body)
            /\ <<"labels", DictGet(document, "labels", "") \o "+build_id=" \o bid>>
                  \in sent.body
            /\ \A p \in document :
                  p[1] \in {"description", "fingerprint", "name"} => p \in sent.body
            /\ target = {p \in document :
                            p[1] \in {"resources", "outputs", "imports"}}

C27_Witness ==
    /\ cls = "GCPStack"
    /\ sent.op = "deployments.insert"
    /\ {<<"zone", "z">>, <<"resources", "r">>, <<"labels", "labels">>,
         <<"description", "d">>, <<"BuildId", "b2">>} \subseteq document
    /\ ~HasKey(document, "outputs")
    /\ ~HasKey(document, "fingerprint")
    /\ sent.body = {<<"description", "d">>, <<"labels", "labels+build_id=b2">>,
                     <<"name", "web">>, <<"target", "target">>}
    /\ target = {<<"resources", "r">>} \cup {p \in document : p[1] = "imports"}

(***************************************************************************)
(* More properties of a CloudformationStack run.                           *)
(***************************************************************************)
\* C28: upsert enters create() only when update() failed before its change
\* set was created: a run of upsert that has entered create() has made no
\* call on a change set after create_change_set.
C28_CreateOnlyWhenStackMissing ==
    (stackType = "cloudformation" /\ method = "upsert" /\ createCalls > 0) =>
        CallsOf({"wait_change_set_create_complete", "describe_change_set",
                 "execute_change_set", "delete_change_set"}) = {}

\* C29: an update with wait and review waits for the update of the stack to
\* complete only when the operator has had the change set executed; after
\* the answer d or k the run makes no such wait.
C29_WaitOnlyAfterExecute ==
    (/\ stackType = "cloudformation" /\ method = "update" /\ review /\ wait
     /\ CallsOf({"wait_stack_update_complete"}) # {}) =>
        /\ CallsOf({"execute_change_set"}) # {}
        /\ answer = "e"

(***************************************************************************)
(* More properties of the resolver.                                        *)
(***************************************************************************)
\* C30: get_stack_output never answers a lookup of one provider from the
\* cache entry a lookup of the other provider made for the same name: the
\* entry a call leaves for its name, which is the one it read, is of the
\* call's own provider.
C30_NoCrossProviderHit ==
    (lastCall.fn = "get_stack_output") =>
        STACK_CACHE[lastCall.name].kind \in {"none", lastCall.provider}

(***************************************************************************)
(* More properties of a ShellStack run.                                    *)
(***************************************************************************)
\* C31, as claimed: when Commands is a string with $FOO, FOO is set in the
\* process environment and the stack-wide or the action Environment gives
\* FOO another value, the text the command is run with has, for FOO, the
\* value of the merged environment the command is run in.
C31_OverrideWinsInText ==
    (/\ stackType = "shell"
     /\ docCommands = "str"
     /\ HasKey(startEnviron, "FOO")
     /\ HasKey(docEnvironment, "FOO") \/ HasKey(docActionEnv, "FOO")
     /\ CallsOf({"Popen"}) # {}) =>
        <<"FOO", popenArgs.commands[3]>> \in popenArgs.env

\* C31, amended: the text has the value FOO had in the process environment
\* when the stack object was built, with no placeholder left for the shell;
\* the value of the action's Environment, or else of the stack-wide one, is
\* in the environment of the command only.
C31_ProcessValueInText ==
    (/\ stackType = "shell"
     /\ docCommands = "str"
     /\ HasKey(startEnviron, "FOO")
     /\ HasKey(docEnvironment, "FOO") \/ HasKey(docActionEnv, "FOO")
     /\ CallsOf({"Popen"}) # {}) =>
        /\ popenArgs.shell
        /\ <<"FOO", popenArgs.commands[3]>> \in startEnviron
        /\ \A i \in 1..Len(popenArgs.commands) : popenArgs.commands[i] # "$FOO"
        /\ <<"FOO", IF HasKey(docActionEnv, "FOO") THEN "a" ELSE "s">>
              \in popenArgs.env
        /\ <<"FOO", popenArgs.commands[3]>> \notin popenArgs.env

C31_Witness ==
    /\ stackType = "shell"
    /\ docCommands = "str"
    /\ startEnviron = {<<"FOO", "p">>}
    /\ docEnvironment = {<<"FOO", "s">>}
    /\ docActionEnv = {}
    /\ method = "create"
    /\ pc = "done"
    /\ popenArgs.commands = <<"run", "Create", "p">>
    /\ <<"FOO", "s">> \in popenArgs.env

(***************************************************************************)
(* More properties of a GCPStack run.                                      *)
(***************************************************************************)
\* C32: in delete() with wait of the GCP stack, the probe that finds the
\* deployment gone (get() returns {} on a 404) is the last one: wait()
\* returns after it and the run is at its end.
C32_DeleteWaitEndsWhenGone ==
    (/\ stackType = "gcp" /\ method = "delete" /\ wait
     /\ probes > 0
     /\ lastGet.reply.http = "404"
     /\ lastGet.value = EmptyDict) =>
        pc = "done"

====
